---------------------------- MODULE Spec2Model ----------------------------
(***************************************************************************)
(* agent-mux: the execution core (core.ts).                                *)
(*                                                                         *)
(* One process runs one engine adapter under a deadline timer, a heartbeat *)
(* interval and SIGINT/SIGTERM handlers, then writes one JSON document to  *)
(* stdout and exits.  JavaScript runs every callback to completion, so the *)
(* steps of the model are the callbacks of the event loop:                 *)
(*   - the synchronous body of run()/execute() up to `await adapter.run`,  *)
(*   - a heartbeat interval tick, the deadline timeout, a signal handler,  *)
(*   - the adapter calling onHeartbeat / onItem,                           *)
(*   - the adapter's promise settling (fulfilled or rejected),             *)
(*   - the continuation of execute() after the await (a microtask: it runs *)
(*     before any timer or signal callback can).                           *)
(* Wall-clock values (duration_ms, the elapsed seconds of a heartbeat      *)
(* line) are not modelled.                                                 *)
(***************************************************************************)
EXTENDS Integers, Sequences, FiniteSets, TLC

\* ------------------------------------------------------------------ bounds
MaxTicks == 2
MaxItems == 1
MaxWrites == 1
MaxReports == 3
MaxLen == 3
\* Events the SSE stream yields before it is left alone.
MaxEvents == 3
\* Messages query() yields before it ends or throws.
MaxMessages == 3

\* ------------------------------------------------------------ value spaces
Absent == "<absent>"
Null == "null"

INITIALIZING == "initializing"
Descriptions == {"starting agent", "assistant response"}

SHUTDOWN_PLACEHOLDER == "(shutdown requested - partial results may be available in activity log)"
TIMEOUT_PLACEHOLDER == "(timed out - partial results may be available in activity log)"

Signals == {"SIGINT", "SIGTERM"}

ActivityItems ==
  { [type |-> "file_change", summary |-> "a.ts"],
    [type |-> "file_change", summary |-> "b.ts"],
    [type |-> "file_read",   summary |-> "a.ts"],
    [type |-> "command",     summary |-> "bun test"],
    [type |-> "mcp_call",    summary |-> "docs/search"],
    [type |-> "message",     summary |-> "hello"] }

\* The items the adapter hands to callbacks.onItem during a run: one of a
\* deduplicated category and one of a repetition-preserving category.
RunItems ==
  { [type |-> "file_change", summary |-> "a.ts"],
    [type |-> "command",     summary |-> "bun test"] }

EngineNames == {"codex", "claude", "opencode"}

\* The final text the backend produced, as the adapter's event loop collected it.
BackendTexts == {"adapter text", ""}

NO_RESPONSE == "(no response)"
NO_TEXT_RESPONSE == "(no text response)"

\* `response || "(no response)"` (codex), `result.result || "(no response)"`
\* (claude), `textContent || "(no text response)"` (opencode).
emptyPlaceholder(e) == IF e = "opencode" THEN NO_TEXT_RESPONSE ELSE NO_RESPONSE
\* Variant: the backend's text handed on as it is.
responseOf_Raw(e, text) == text

responseOf(e, text) == IF text = "" THEN emptyPlaceholder(e) ELSE text

\* What adapter.run() can be fulfilled with.  shape "ok": an EngineResult
\* that JSON.stringify accepts; "unserializable": an EngineResult whose
\* metadata carries a value JSON.stringify rejects with a TypeError (a BigInt,
\* a cyclic object).  claude and opencode copy fields of SDK messages into the
\* metadata as they are; codex builds it from the configured model name and
\* from sums that start at the number 0, which are always serialisable.
shapesOf(e) == IF e = "codex" THEN {"ok"} ELSE {"ok", "unserializable"}
engineResult(e, text, shape) ==
  [shape |-> shape, response |-> responseOf(e, text), metadata |-> "meta"]
NoResult == [shape |-> Absent, response |-> Absent, metadata |-> Absent]

\* What adapter.run() can be rejected with.  isError: `err instanceof Error`;
\* printable: String(err) returns (it raises a TypeError for an object
\* without a usable toString, e.g. Object.create(null)).
PlainError    == [isError |-> TRUE,  name |-> "Error",      message |-> "boom",    printable |-> TRUE]
AbortError    == [isError |-> TRUE,  name |-> "AbortError", message |-> "aborted", printable |-> TRUE]
ThrownString  == [isError |-> FALSE, name |-> Absent,       message |-> "oops",    printable |-> TRUE]
ThrownOpaque  == [isError |-> FALSE, name |-> Absent,       message |-> Absent,    printable |-> FALSE]
AdapterErrors == {PlainError, AbortError, ThrownString, ThrownOpaque}
NoError       == [isError |-> FALSE, name |-> Absent, message |-> Absent, printable |-> FALSE]

\* The TypeErrors the orchestrator's own statements raise.
TypeErrorOf(msg) == [isError |-> TRUE, name |-> "TypeError", message |-> msg, printable |-> TRUE]
NotSerializable == TypeErrorOf("JSON.stringify cannot serialize the value")
NotPrintable    == TypeErrorOf("Cannot convert object to primitive value")

\* process.env.PATH: undefined (unset) or a string, kept as the sequence of
\* its pieces (directories and the delimiter ":").
PathUnset == [defined |-> FALSE, value |-> << >>]
PathString(pieces) == [defined |-> TRUE, value |-> pieces]
InitialPaths == {PathUnset, PathString(<< >>), PathString(<< "/usr/bin" >>)}

\* config.skills filtered by hasScripts and mapped to join(dir, "scripts").
SkillScriptDirChoices == {<< >>, << "skills/review/scripts" >>}

\* skillScriptDirs.join(delimiter): the pieces with ":" between them.
RECURSIVE joinDirs(_)
joinDirs(dirs) ==
  IF Len(dirs) <= 1 THEN dirs
  ELSE << dirs[1], ":" >> \o joinDirs(Tail(dirs))

\* skillScriptDirs.join(delimiter) + delimiter + (process.env.PATH || "")
prependToPath(dirs, env) ==
  PathString(joinDirs(dirs) \o << ":" >> \o (IF env.defined THEN env.value ELSE << >>))

VARIABLES
  pc,                  \* "init" | "running" | "settled" | "exited"
  argsKind,            \* parseCliArgs().kind: "ok" | "invalid"
  engine,              \* the engine selected with --engine
  stderrWrite,         \* process.stderr.write: "original" | "filter"
  originalStderrWrite, \* execute's saved write, or Null
  listeners,           \* signals shutdownHandler is registered for
  timeoutId,           \* TRUE while the deadline setTimeout is pending
  didTimeout,
  didShutdown,
  aborted,             \* abortController.signal.aborted
  sigReceived,         \* history: shutdownHandler has been called in this run
  firstTrigger,        \* history: which of deadline and interrupt came first
  lastUpdate,          \* history: the last description given to onHeartbeat, or Absent
  skillScriptDirs,     \* scripts/ directories of the skills that have one
  pathAtStart,         \* history: process.env.PATH when the process started
  pathEnv,             \* process.env.PATH
  originalPath,        \* execute's const originalPath
  heartbeat,           \* HeartbeatManager: intervalId, lastActivity, heartbeatCount
  collector,           \* ActivityCollector
  settlement,          \* how adapter.run() settled; stop: the subtype of the
                       \* backend's result message when the model tracks it
  rejection,           \* what the promise of execute() was rejected with
  handledBy,           \* which block wrote the Output
  stdout,              \* documents written with console.log
  stderr,              \* lines that reached the real stderr
  exitCode,
  codexRun,            \* CodexEngine.run building the MCP override
  cliParse,            \* parseCliArgs: the --timeout and --effort it was given,
                       \* and what it returned
  opencodeRun,         \* OpenCodeEngine.run: server, session, event loop
  claudeRun            \* ClaudeEngine.run: abort forwarding, message loop

\* The variables of run() and execute().
runVars == << pc, argsKind, engine, firstTrigger, lastUpdate, skillScriptDirs, pathAtStart, pathEnv,
             originalPath, stderrWrite, originalStderrWrite, listeners, timeoutId,
             didTimeout, didShutdown, aborted, sigReceived, heartbeat, collector,
             settlement, rejection, handledBy, stdout, stderr, exitCode >>

\* The variables of the engine adapters looked at on their own.
auxVars == << codexRun, cliParse, opencodeRun, claudeRun >>

vars == << runVars, auxVars >>

\* ------------------------------------------------------- HeartbeatManager
HeartbeatLine(desc) == [prefix |-> "[heartbeat]", description |-> desc]

\* The number of lines of `out` that the interval callback wrote.
HeartbeatLinesIn(out) ==
  Cardinality({i \in 1..Len(out) : out[i].prefix = "[heartbeat]"})

NewHeartbeatManager ==
  [intervalId |-> FALSE, lastActivity |-> INITIALIZING, heartbeatCount |-> 0]

start(h) == [h EXCEPT !.intervalId = TRUE]

\* Variant: only the first description is kept.
updateActivity_KeepFirst(h, activity) ==
  IF h.lastActivity = INITIALIZING THEN [h EXCEPT !.lastActivity = activity] ELSE h

updateActivity(h, activity) == [h EXCEPT !.lastActivity = activity]

\* Variant: stop() that leaves the interval armed.
stop_NoClear(h) == h

stop(h) == [h EXCEPT !.intervalId = FALSE]

getCount(h) == h.heartbeatCount

\* ------------------------------------------------------ ActivityCollector
\* A JavaScript Set keeps insertion order and ignores a repeated add.
SetAdd(s, x) == IF \E i \in 1..Len(s) : s[i] = x THEN s ELSE Append(s, x)

NewActivityCollector ==
  [items |-> << >>, filesChanged |-> << >>, commandsRun |-> << >>,
   filesRead |-> << >>, mcpCalls |-> << >>]

\* Variant: the two path collections kept as plain arrays.
addItem_NoDedup(c, item) ==
  LET c1 == [c EXCEPT !.items = Append(@, item)] IN
  CASE item.type = "file_change" -> [c1 EXCEPT !.filesChanged = Append(@, item.summary)]
    [] item.type = "command"     -> [c1 EXCEPT !.commandsRun = Append(@, item.summary)]
    [] item.type = "file_read"   -> [c1 EXCEPT !.filesRead = Append(@, item.summary)]
    [] item.type = "mcp_call"    -> [c1 EXCEPT !.mcpCalls = Append(@, item.summary)]
    [] OTHER                     -> c1

\* Variant: all four collections kept as Sets.
addItem_DedupAll(c, item) ==
  LET c1 == [c EXCEPT !.items = Append(@, item)] IN
  CASE item.type = "file_change" -> [c1 EXCEPT !.filesChanged = SetAdd(@, item.summary)]
    [] item.type = "command"     -> [c1 EXCEPT !.commandsRun = SetAdd(@, item.summary)]
    [] item.type = "file_read"   -> [c1 EXCEPT !.filesRead = SetAdd(@, item.summary)]
    [] item.type = "mcp_call"    -> [c1 EXCEPT !.mcpCalls = SetAdd(@, item.summary)]
    [] OTHER                     -> c1

\* Variant: a switch with a default branch that files the item as a command.
addItem_DefaultCommand(c, item) ==
  LET c1 == [c EXCEPT !.items = Append(@, item)] IN
  CASE item.type = "file_change" -> [c1 EXCEPT !.filesChanged = SetAdd(@, item.summary)]
    [] item.type = "command"     -> [c1 EXCEPT !.commandsRun = Append(@, item.summary)]
    [] item.type = "file_read"   -> [c1 EXCEPT !.filesRead = SetAdd(@, item.summary)]
    [] item.type = "mcp_call"    -> [c1 EXCEPT !.mcpCalls = Append(@, item.summary)]
    [] OTHER                     -> [c1 EXCEPT !.commandsRun = Append(@, item.summary)]

addItem(c, item) ==
  LET c1 == [c EXCEPT !.items = Append(@, item)] IN
  CASE item.type = "file_change" -> [c1 EXCEPT !.filesChanged = SetAdd(@, item.summary)]
    [] item.type = "command"     -> [c1 EXCEPT !.commandsRun = Append(@, item.summary)]
    [] item.type = "file_read"   -> [c1 EXCEPT !.filesRead = SetAdd(@, item.summary)]
    [] item.type = "mcp_call"    -> [c1 EXCEPT !.mcpCalls = Append(@, item.summary)]
    [] OTHER                     -> c1

getActivity(c, heartbeatCount) ==
  [files_changed |-> c.filesChanged, commands_run |-> c.commandsRun,
   files_read |-> c.filesRead, mcp_calls |-> c.mcpCalls,
   heartbeat_count |-> heartbeatCount]

EmptyActivity ==
  [files_changed |-> << >>, commands_run |-> << >>, files_read |-> << >>,
   mcp_calls |-> << >>, heartbeat_count |-> 0]

\* ----------------------------------------------------------------- Output
SuccessOutput(response, timedOut, activity, metadata) ==
  [success |-> TRUE, response |-> response, timed_out |-> timedOut,
   error |-> Absent, code |-> Absent, activity |-> activity, metadata |-> metadata]

ErrorOutput(error, code, activity) ==
  [success |-> FALSE, response |-> Absent, timed_out |-> Absent,
   error |-> error, code |-> code, activity |-> activity, metadata |-> Absent]

\* `err instanceof Error ? err.message : String(err)`, where String(err)
\* returns: the message field of a non-Error value stands for its string form.
errText(err) == err.message

\* Variant: every document leaves with exit code 0.
exitCodeOf_AlwaysZero(result) == 0

\* process.exit(result.success ? 0 : 1)
exitCodeOf(result) == IF result.success THEN 0 ELSE 1

\* Variant: the document is logged by the block that built it and again on
\* the way out.
writeOutput_Twice(result) ==
  /\ stdout' = Append(Append(stdout, result), result)
  /\ exitCode' = exitCodeOf(result)
  /\ pc' = "exited"

\* Variant: console.log without process.exit; the process stays alive.
writeOutput_NoExit(result) ==
  /\ stdout' = Append(stdout, result)
  /\ exitCode' = exitCode
  /\ pc' = "written"

\* writeOutput(result): console.log, then process.exit.
writeOutput(result) ==
  /\ stdout' = Append(stdout, result)
  /\ exitCode' = exitCodeOf(result)
  /\ pc' = "exited"

\* ------------------------------------------------------------------- Init
\* ------------------------------------------- parseCliArgs, the deadline
\* A --timeout value is a string, kept as the sequence of its characters:
\* digits, a blank, and characters that are neither.
Digits == {"0", "1", "7"}
TimeoutChars == Digits \cup {" ", "-", "."}
TimeoutTexts == UNION {[1..n -> TimeoutChars] : n \in 0..MaxLen}

\* values.timeout: undefined, or a string.
TimeoutArgs ==
  {[given |-> FALSE, text |-> << >>]} \cup {[given |-> TRUE, text |-> t] : t \in TimeoutTexts}

\* values.effort: undefined (Absent), or a string.
VALID_EFFORTS == {"low", "medium", "high", "xhigh"}
EffortArgs == {Absent, ""} \cup VALID_EFFORTS \cup {"extreme"}

TIMEOUT_BY_EFFORT ==
  [low |-> 120000, medium |-> 600000, high |-> 1200000, xhigh |-> 2400000]

digitValue(c) == CASE c = "0" -> 0 [] c = "1" -> 1 [] c = "7" -> 7

\* String.prototype.trim
RECURSIVE trim(_)
trim(t) ==
  IF t = << >> THEN t
  ELSE IF Head(t) = " " THEN trim(Tail(t))
  ELSE IF t[Len(t)] = " " THEN trim(SubSeq(t, 1, Len(t) - 1))
  ELSE t

\* /^\d+$/.test(t)
isDigits(t) == Len(t) > 0 /\ \A i \in 1..Len(t) : t[i] \in Digits

\* parseInt(t, 10) of a string of digits.  The strings modelled are far
\* shorter than the 309 digits that make it Infinity, so Number.isFinite
\* is true of every value it returns here.
RECURSIVE parseInt10(_)
parseInt10(t) ==
  IF t = << >> THEN 0
  ELSE 10 * parseInt10(SubSeq(t, 1, Len(t) - 1)) + digitValue(t[Len(t)])

ArgvNotModelled ==
  [phase |-> "none", timeoutArg |-> [given |-> FALSE, text |-> << >>],
   effortArg |-> Absent, restValid |-> TRUE, kind |-> Absent, timeout |-> 0]

Invalid == [kind |-> "invalid", timeout |-> 0]

\* Variant: the `parsed <= 0` test left out.
parseDeadline_AcceptsZero(timeoutArg, effortArg, restValid) ==
  LET effort == IF effortArg \in {Absent, ""} THEN "medium" ELSE effortArg
      t      == trim(timeoutArg.text)
  IN  IF ~restValid THEN Invalid
      ELSE IF effort \notin VALID_EFFORTS THEN Invalid
      ELSE IF ~timeoutArg.given THEN [kind |-> "ok", timeout |-> TIMEOUT_BY_EFFORT[effort]]
      ELSE IF ~isDigits(t) THEN Invalid
      ELSE [kind |-> "ok", timeout |-> parseInt10(t)]

\* parseCliArgs as far as the deadline goes: the kind it returns and
\* config.timeout.  restValid: every other check of parseCliArgs passes.
parseDeadline(timeoutArg, effortArg, restValid) ==
  LET effort == IF effortArg \in {Absent, ""} THEN "medium" ELSE effortArg
      t      == trim(timeoutArg.text)
  IN  IF ~restValid THEN Invalid
      ELSE IF effort \notin VALID_EFFORTS THEN Invalid
      ELSE IF ~timeoutArg.given THEN [kind |-> "ok", timeout |-> TIMEOUT_BY_EFFORT[effort]]
      ELSE IF ~isDigits(t) THEN Invalid
      ELSE IF parseInt10(t) <= 0 THEN Invalid
      ELSE [kind |-> "ok", timeout |-> parseInt10(t)]

\* ------------------------------------------------ CodexEngine.run, MCP
\* Server names that mcp-clusters.yaml may define.
ServerNames == {"browser", "exa", "github", "docs"}

\* The repository holds two CodexEngine.run: one builds the override
\* whenever it runs ("always"), the other only when a cluster was requested
\* ("requested-only").
CodexBuilds == {"always", "requested-only"}

CodexNotStarted ==
  [phase |-> "idle", build |-> Absent, known |-> {}, requested |-> {},
   injected |-> FALSE, override |-> [n \in ServerNames |-> Absent]]

\* mcpOverride as CodexEngine.run fills it: known servers that were not
\* requested get {enabled: false}, requested ones {enabled: true, ...}; a
\* name it never writes is Absent.
mcpOverrideOf(build, known, requested) ==
  [n \in ServerNames |->
     IF build = "requested-only" /\ requested = {} THEN Absent
     ELSE IF n \in requested THEN "enabled"
     ELSE IF n \in known THEN "disabled"
     ELSE Absent]

\* codexOptions.config: `{ mcp_servers: mcpOverride }`, or undefined.
configInjected(build, requested) == build = "always" \/ requested # {}

\* ------------------------------------------------ OpenCodeEngine.run
\* The session the run creates, and another session of the same server.
OwnSession == "test-session-id"
Sessions == {OwnSession, "other-session"}

PartIds == {"p1", "p2"}
ZeroTokens == [input |-> 0, output |-> 0, reasoning |-> 0]
NoPart == [type |-> "none", sessionID |-> "", id |-> "", text |-> "", toolName |-> ""]
NoInfo == [role |-> "none", sessionID |-> "", cost |-> 0, tokens |-> ZeroTokens]

\* What the SSE stream may deliver, as `payload.type` and
\* `payload.properties`: text and tool parts, assistant message metadata,
\* session.idle and session.error, each for either session.
OpenCodeEvents ==
  {[type |-> "message.part.updated", sessionID |-> "",
    part |-> [type |-> "text", sessionID |-> s, id |-> id, text |-> "correct response",
              toolName |-> ""],
    info |-> NoInfo] : s \in Sessions, id \in PartIds}
  \cup
  {[type |-> "message.part.updated", sessionID |-> "",
    part |-> [type |-> "tool", sessionID |-> s, id |-> "t1", text |-> "",
              toolName |-> "read"],
    info |-> NoInfo] : s \in Sessions}
  \cup
  {[type |-> "message.updated", sessionID |-> "", part |-> NoPart,
    info |-> [role |-> "assistant", sessionID |-> s, cost |-> 3,
              tokens |-> [input |-> 7, output |-> 2, reasoning |-> 1]]] : s \in Sessions}
  \cup
  {[type |-> t, sessionID |-> s, part |-> NoPart, info |-> NoInfo] :
     t \in {"session.idle", "session.error"}, s \in Sessions}

NoEvent == [type |-> "none", sessionID |-> "", part |-> NoPart, info |-> NoInfo]

\* The session an event belongs to: part.sessionID, info.sessionID or
\* properties.sessionID, whichever its type carries.
sessionOf(event) ==
  IF event.type = "message.part.updated" THEN event.part.sessionID
  ELSE IF event.type = "message.updated" THEN event.info.sessionID
  ELSE event.sessionID

NoOutcome == [how |-> "pending", response |-> << >>, err |-> ""]

OpenCodeNotStarted ==
  [phase |-> "idle", signalAborted |-> FALSE, abortListener |-> FALSE,
   sessionAborts |-> 0, abortedAt |-> Absent, sessionId |-> Absent,
   serverStarted |-> FALSE, closes |-> 0,
   lastActivity |-> Absent, textParts |-> << >>, items |-> << >>, reported |-> << >>,
   cost |-> 0, tokens |-> ZeroTokens, handled |-> 0, lastEvent |-> NoEvent,
   inner |-> NoOutcome, outcome |-> NoOutcome]

\* textParts.set(partId, text): a Map keeps the position of a key it has.
setTextPart(textParts, id, text) ==
  IF \E i \in 1..Len(textParts) : textParts[i].id = id
  THEN [i \in 1..Len(textParts) |->
          IF textParts[i].id = id THEN [id |-> id, text |-> text] ELSE textParts[i]]
  ELSE Append(textParts, [id |-> id, text |-> text])

\* [...textParts.values()].join("\n").trim(), kept as the list of the texts
\* joined; it is empty exactly when no non-empty text was collected.
joinedText(textParts) ==
  SelectSeq([i \in 1..Len(textParts) |-> textParts[i].text], LAMBDA t : t # "")

\* ------------------------------------------------ ClaudeEngine.run
ClaudeNotStarted ==
  [phase |-> "idle", signalAborted |-> FALSE, forwarding |-> FALSE, sdkAborted |-> FALSE,
   lastActivity |-> Absent, items |-> << >>, finalResult |-> "", handled |-> 0,
   outcome |-> [how |-> "pending", response |-> "", err |-> ""]]

\* The process as run() finds it, started with PATH `env` and with skills
\* whose scripts directories are `dirs`.
InitWith(env, dirs) ==
  /\ pc = "init"
  /\ engine \in EngineNames
  /\ skillScriptDirs = dirs
  /\ pathAtStart = env
  /\ pathEnv = env
  /\ originalPath = PathUnset
  /\ stderrWrite = "original"
  /\ originalStderrWrite = Null
  /\ listeners = {}
  /\ timeoutId = FALSE
  /\ didTimeout = FALSE
  /\ didShutdown = FALSE
  /\ aborted = FALSE
  /\ sigReceived = FALSE
  /\ firstTrigger = "none"
  /\ lastUpdate = Absent
  /\ heartbeat = NewHeartbeatManager
  /\ collector = NewActivityCollector
  /\ settlement = [how |-> "pending", text |-> Absent, result |-> NoResult, err |-> NoError,
                   stop |-> Absent]
  /\ rejection = NoError
  /\ handledBy = "none"
  /\ stdout = << >>
  /\ stderr = << >>
  /\ exitCode = Null

\* parseCliArgs has returned: the run starts from its result.
ArgsParsed == argsKind \in {"ok", "invalid"}

\* No adapter is being looked at on its own.
AuxIdle ==
  /\ codexRun = CodexNotStarted
  /\ cliParse = ArgvNotModelled
  /\ opencodeRun = OpenCodeNotStarted
  /\ claudeRun = ClaudeNotStarted

\* A process started with PATH set and one skill that has scripts.
Init ==
  /\ InitWith(PathString(<< "/usr/bin" >>), << "skills/review/scripts" >>)
  /\ ArgsParsed
  /\ AuxIdle

\* ------------------------------------------------------------------ run()
\* args.kind === "invalid": the INVALID_ARGS document, then process.exit(1).
RunInvalidArgs ==
  /\ pc = "init"
  /\ argsKind = "invalid"
  /\ handledBy' = "run.invalid"
  /\ stdout' = Append(stdout, ErrorOutput("invalid arguments", "INVALID_ARGS", EmptyActivity))
  /\ exitCode' = 1
  /\ pc' = "exited"
  /\ UNCHANGED << argsKind, engine, firstTrigger, auxVars, lastUpdate, skillScriptDirs, pathAtStart, pathEnv,
                  originalPath, stderrWrite, originalStderrWrite, listeners, timeoutId,
                  didTimeout, didShutdown, aborted, sigReceived, heartbeat, collector,
                  settlement, rejection, stderr >>

\* Variant: execute() entered without looking at args.kind.
ExecuteStart_AnyArgs ==
  /\ pc = "init"
  /\ originalStderrWrite' = stderrWrite
  /\ stderrWrite' = "filter"
  /\ listeners' = Signals
  /\ heartbeat' = start(heartbeat)
  /\ timeoutId' = TRUE
  /\ originalPath' = pathEnv
  /\ pathEnv' = IF Len(skillScriptDirs) > 0 THEN prependToPath(skillScriptDirs, pathEnv)
                                            ELSE pathEnv
  /\ pc' = "running"
  /\ UNCHANGED << argsKind, engine, firstTrigger, auxVars, lastUpdate, skillScriptDirs, pathAtStart,
                  didTimeout, didShutdown, aborted, sigReceived, collector,
                  settlement, rejection, handledBy, stdout, stderr, exitCode >>

\* Variant: execute awaits the adapter before it sets the deadline timer.
ExecuteStart_TimerLater ==
  /\ pc = "init"
  /\ argsKind = "ok"
  /\ originalStderrWrite' = stderrWrite
  /\ stderrWrite' = "filter"
  /\ listeners' = Signals
  /\ heartbeat' = start(heartbeat)
  /\ timeoutId' = FALSE
  /\ originalPath' = pathEnv
  /\ pathEnv' = IF Len(skillScriptDirs) > 0 THEN prependToPath(skillScriptDirs, pathEnv)
                                            ELSE pathEnv
  /\ pc' = "running"
  /\ UNCHANGED << argsKind, engine, firstTrigger, auxVars, lastUpdate, skillScriptDirs, pathAtStart,
                  didTimeout, didShutdown, aborted, sigReceived, collector,
                  settlement, rejection, handledBy, stdout, stderr, exitCode >>

\* args.kind === "ok": execute(config, adapter, {filterStderr: true,
\* handleSignals: true}) runs synchronously up to `await adapter.run(...)`:
\* it patches process.stderr.write, registers shutdownHandler for SIGINT and
\* SIGTERM, remembers process.env.PATH and prepends the skills' scripts
\* directories to it, starts the heartbeat interval and arms the deadline
\* timeout.
ExecuteStart ==
  /\ pc = "init"
  /\ argsKind = "ok"
  /\ originalStderrWrite' = stderrWrite
  /\ stderrWrite' = "filter"
  /\ listeners' = Signals
  /\ heartbeat' = start(heartbeat)
  /\ timeoutId' = TRUE
  /\ originalPath' = pathEnv
  /\ pathEnv' = IF Len(skillScriptDirs) > 0 THEN prependToPath(skillScriptDirs, pathEnv)
                                            ELSE pathEnv
  /\ pc' = "running"
  /\ UNCHANGED << argsKind, engine, firstTrigger, auxVars, lastUpdate, skillScriptDirs, pathAtStart,
                  didTimeout, didShutdown, aborted, sigReceived, collector,
                  settlement, rejection, handledBy, stdout, stderr, exitCode >>

\* Variant: the callback counts every tick twice.
HeartbeatTick_CountsTwo ==
  /\ pc = "running"
  /\ heartbeat.intervalId
  /\ heartbeat.heartbeatCount < MaxTicks
  /\ heartbeat' = [heartbeat EXCEPT !.heartbeatCount = @ + 2]
  /\ stderr' = Append(stderr, HeartbeatLine(heartbeat.lastActivity))
  /\ UNCHANGED << pc, argsKind, engine, firstTrigger, auxVars, lastUpdate, skillScriptDirs, pathAtStart, pathEnv,
                  originalPath, stderrWrite, originalStderrWrite, listeners,
                  timeoutId, didTimeout, didShutdown, aborted, sigReceived, collector,
                  settlement, rejection, handledBy, stdout, exitCode >>

\* Variant: the callback is armed with setTimeout and fires once.
HeartbeatTick_OneShot ==
  /\ pc = "running"
  /\ heartbeat.intervalId
  /\ heartbeat.heartbeatCount < MaxTicks
  /\ heartbeat' = [heartbeat EXCEPT !.heartbeatCount = @ + 1, !.intervalId = FALSE]
  /\ stderr' = Append(stderr, HeartbeatLine(heartbeat.lastActivity))
  /\ UNCHANGED << pc, argsKind, engine, firstTrigger, auxVars, lastUpdate, skillScriptDirs, pathAtStart, pathEnv,
                  originalPath, stderrWrite, originalStderrWrite, listeners,
                  timeoutId, didTimeout, didShutdown, aborted, sigReceived, collector,
                  settlement, rejection, handledBy, stdout, exitCode >>

\* ------------------------------------------------------- timers and signals
\* The setInterval callback of HeartbeatManager.start.  It writes through
\* _stderrWrite, bound in the constructor before the filter was installed.
HeartbeatTick ==
  /\ pc = "running"
  /\ heartbeat.intervalId
  /\ heartbeat.heartbeatCount < MaxTicks
  /\ heartbeat' = [heartbeat EXCEPT !.heartbeatCount = @ + 1]
  /\ stderr' = Append(stderr, HeartbeatLine(heartbeat.lastActivity))
  /\ UNCHANGED << pc, argsKind, engine, firstTrigger, auxVars, lastUpdate, skillScriptDirs, pathAtStart, pathEnv,
                  originalPath, stderrWrite, originalStderrWrite, listeners,
                  timeoutId, didTimeout, didShutdown, aborted, sigReceived, collector,
                  settlement, rejection, handledBy, stdout, exitCode >>

\* Variant: the callback records the deadline and aborts nothing.
DeadlineFires_FlagOnly ==
  /\ pc = "running"
  /\ timeoutId
  /\ timeoutId' = FALSE
  /\ didTimeout' = TRUE
  /\ aborted' = aborted
  /\ firstTrigger' = IF firstTrigger = "none" THEN "deadline" ELSE firstTrigger
  /\ UNCHANGED << pc, argsKind, engine, auxVars, lastUpdate, skillScriptDirs, pathAtStart, pathEnv,
                  originalPath, stderrWrite, originalStderrWrite, listeners,
                  didShutdown, sigReceived, heartbeat, collector, settlement,
                  rejection, handledBy, stdout, stderr, exitCode >>

\* The setTimeout callback: it fires once.
DeadlineFires ==
  /\ pc = "running"
  /\ timeoutId
  /\ timeoutId' = FALSE
  /\ didTimeout' = TRUE
  /\ aborted' = TRUE
  /\ firstTrigger' = IF firstTrigger = "none" THEN "deadline" ELSE firstTrigger
  /\ UNCHANGED << pc, argsKind, engine, auxVars, lastUpdate, skillScriptDirs, pathAtStart, pathEnv,
                  originalPath, stderrWrite, originalStderrWrite, listeners,
                  didShutdown, sigReceived, heartbeat, collector, settlement,
                  rejection, handledBy, stdout, stderr, exitCode >>

\* The cause the catch block reports: its placeholder asks didShutdown first.
abortCause(shutdown, timeout) ==
  IF shutdown THEN "shutdown" ELSE IF timeout THEN "timeout" ELSE "none"

\* Variant: the handler has no early return.
shutdownHandler_NoGuard(sig) ==
  /\ pc = "running"
  /\ sig \in listeners
  /\ sigReceived' = TRUE
  /\ didShutdown' = TRUE
  /\ aborted' = TRUE
  /\ firstTrigger' = IF firstTrigger = "none" THEN "interrupt" ELSE firstTrigger
  /\ UNCHANGED << pc, argsKind, engine, auxVars, lastUpdate, skillScriptDirs, pathAtStart, pathEnv,
                  originalPath, stderrWrite, originalStderrWrite, listeners,
                  timeoutId, didTimeout, heartbeat, collector, settlement,
                  rejection, handledBy, stdout, stderr, exitCode >>

\* Variant: the handler aborts but forgets to record the shutdown.
shutdownHandler_NoFlag(sig) ==
  /\ pc = "running"
  /\ sig \in listeners
  /\ sigReceived' = TRUE
  /\ aborted' = TRUE
  /\ firstTrigger' = IF firstTrigger = "none" THEN "interrupt" ELSE firstTrigger
  /\ UNCHANGED << pc, argsKind, engine, auxVars, lastUpdate, skillScriptDirs, pathAtStart, pathEnv,
                  originalPath, stderrWrite, originalStderrWrite, listeners,
                  timeoutId, didTimeout, didShutdown, heartbeat, collector,
                  settlement, rejection, handledBy, stdout, stderr, exitCode >>

\* shutdownHandler, called for a SIGINT or SIGTERM it is registered for.
shutdownHandler(sig) ==
  /\ pc = "running"
  /\ sig \in listeners
  /\ sigReceived' = TRUE
  /\ IF didShutdown \/ didTimeout
       THEN UNCHANGED << didShutdown, aborted >>
       ELSE didShutdown' = TRUE /\ aborted' = TRUE
  /\ firstTrigger' = IF firstTrigger = "none" THEN "interrupt" ELSE firstTrigger
  /\ UNCHANGED << pc, argsKind, engine, auxVars, lastUpdate, skillScriptDirs, pathAtStart, pathEnv,
                  originalPath, stderrWrite, originalStderrWrite, listeners,
                  timeoutId, didTimeout, heartbeat, collector, settlement,
                  rejection, handledBy, stdout, stderr, exitCode >>

\* ------------------------------------------------------------ the adapter
\* callbacks.onHeartbeat(activity)
onHeartbeat(activity) ==
  /\ pc = "running"
  /\ heartbeat' = updateActivity(heartbeat, activity)
  /\ lastUpdate' = activity
  /\ UNCHANGED << pc, argsKind, engine, firstTrigger, auxVars, skillScriptDirs, pathAtStart, pathEnv, originalPath, stderrWrite, originalStderrWrite, listeners,
                  timeoutId, didTimeout, didShutdown, aborted, sigReceived, collector,
                  settlement, rejection, handledBy, stdout, stderr, exitCode >>

\* callbacks.onItem(item)
onItem(item) ==
  /\ pc = "running"
  /\ Len(collector.items) < MaxItems
  /\ collector' = addItem(collector, item)
  /\ UNCHANGED << pc, argsKind, engine, firstTrigger, auxVars, lastUpdate, skillScriptDirs, pathAtStart, pathEnv,
                  originalPath, stderrWrite, originalStderrWrite, listeners,
                  timeoutId, didTimeout, didShutdown, aborted, sigReceived, heartbeat,
                  settlement, rejection, handledBy, stdout, stderr, exitCode >>

\* The promise of adapter.run() is fulfilled: the backend's final text was
\* `text`, and the adapter returns the EngineResult it builds from it.
AdapterReturns(text, shape) ==
  /\ pc = "running"
  /\ settlement' = [how |-> "returned", text |-> text,
                    result |-> engineResult(engine, text, shape), err |-> NoError,
                    stop |-> Absent]
  /\ pc' = "settled"
  /\ UNCHANGED << argsKind, engine, firstTrigger, auxVars, lastUpdate, skillScriptDirs, pathAtStart, pathEnv,
                  originalPath, stderrWrite, originalStderrWrite, listeners, timeoutId,
                  didTimeout, didShutdown, aborted, sigReceived, heartbeat, collector,
                  rejection, handledBy, stdout, stderr, exitCode >>

\* The promise of adapter.run() is rejected.
AdapterThrows(err) ==
  /\ pc = "running"
  /\ settlement' = [how |-> "threw", text |-> Absent, result |-> NoResult, err |-> err,
                    stop |-> Absent]
  /\ pc' = "settled"
  /\ UNCHANGED << argsKind, engine, firstTrigger, auxVars, lastUpdate, skillScriptDirs, pathAtStart, pathEnv,
                  originalPath, stderrWrite, originalStderrWrite, listeners, timeoutId,
                  didTimeout, didShutdown, aborted, sigReceived, heartbeat, collector,
                  rejection, handledBy, stdout, stderr, exitCode >>

\* The subtype of the result message the Claude Agent SDK ends a query with:
\* "success", or an error subtype; "error_max_turns" is the one it uses when
\* the turn budget (options.maxTurns) is used up.
ResultSubtypes == {"success", "error_max_turns", "error_during_execution"}

\* new Error(`Claude agent error (${message.subtype}): ...`)
ClaudeAgentError ==
  [isError |-> TRUE, name |-> "Error", message |-> "Claude agent error", printable |-> TRUE]

\* case "result" of ClaudeEngine.run: how the run settles for a result
\* message of the given subtype whose result text is `text`.
claudeOutcome(subtype, text) ==
  IF subtype = "success"
    THEN [how |-> "returned", text |-> text, result |-> engineResult("claude", text, "ok"),
          err |-> NoError, stop |-> subtype]
    ELSE [how |-> "threw", text |-> Absent, result |-> NoResult,
          err |-> ClaudeAgentError, stop |-> subtype]

\* The Claude backend ends the query with a result message.
ClaudeResultMessage(subtype) ==
  /\ pc = "running"
  /\ engine = "claude"
  /\ settlement' = claudeOutcome(subtype, "adapter text")
  /\ pc' = "settled"
  /\ UNCHANGED << argsKind, engine, firstTrigger, auxVars, lastUpdate, skillScriptDirs, pathAtStart, pathEnv,
                  originalPath, stderrWrite, originalStderrWrite, listeners, timeoutId,
                  didTimeout, didShutdown, aborted, sigReceived, heartbeat, collector,
                  rejection, handledBy, stdout, stderr, exitCode >>

\* ---------------------------------------------- process.stderr.write
\* What code running in the process (an engine, its SDK, the lazy load of
\* mcp-clusters.yaml) hands to process.stderr.write during the run.  prefix
\* is the text the chunk starts with, "other" any start the filter does not
\* name.
InProcessWrites ==
  { [prefix |-> "[agent-mux]", description |-> "Warning: failed to load mcp-clusters.yaml"],
    [prefix |-> "other",       description |-> "sdk debug output"] }

\* Variant: the filter of the first release, which names one prefix.
stderrFilter_HeartbeatOnly(chunk) == chunk.prefix = "[heartbeat]"

\* stderrFilter: TRUE when the chunk is handed on to the saved write.
stderrFilter(chunk) == chunk.prefix = "[heartbeat]" \/ chunk.prefix = "[agent-mux]"

\* A call of process.stderr.write(chunk) while the adapter runs.
StderrWrite(chunk) ==
  /\ pc = "running"
  /\ Cardinality({i \in 1..Len(stderr) : stderr[i].prefix # "[heartbeat]"}) < MaxWrites
  /\ stderr' = IF stderrWrite = "filter" /\ ~stderrFilter(chunk)
                 THEN stderr
                 ELSE Append(stderr, chunk)
  /\ UNCHANGED << pc, argsKind, engine, firstTrigger, auxVars, lastUpdate, skillScriptDirs, pathAtStart, pathEnv,
                  originalPath, stderrWrite, originalStderrWrite, listeners,
                  timeoutId, didTimeout, didShutdown, aborted, sigReceived, heartbeat,
                  collector, settlement, rejection, handledBy, stdout, exitCode >>

\* ------------------------------------------- execute() after the await
\* Variant: the patched write is left in place.
restoreStderr_Leak == UNCHANGED << stderrWrite, originalStderrWrite >>

\* restoreStderr
restoreStderr ==
  IF originalStderrWrite # Null
    THEN stderrWrite' = originalStderrWrite /\ originalStderrWrite' = Null
    ELSE UNCHANGED << stderrWrite, originalStderrWrite >>

\* `if (originalPath !== undefined) process.env.PATH = originalPath`
restorePath ==
  pathEnv' = IF originalPath.defined THEN originalPath ELSE pathEnv

\* Variant: cleanup forgets clearTimeout.
cleanup_KeepsTimer ==
  /\ timeoutId' = timeoutId
  /\ heartbeat' = stop(heartbeat)
  /\ restoreStderr
  /\ restorePath
  /\ listeners' = {}

\* cleanup(timeoutId).  It is called first in the try block and first in the
\* catch block; a second call changes nothing the first has not changed.
cleanup ==
  /\ timeoutId' = FALSE
  /\ heartbeat' = stop(heartbeat)
  /\ restoreStderr
  /\ restorePath
  /\ listeners' = {}

\* What the statements after the await in the try block raise, NoError if
\* they raise nothing: JSON.stringify(output) in writeOutput is the one that
\* can.
tryThrown(result) ==
  IF result.shape = "unserializable" THEN NotSerializable ELSE NoError

\* Variant: timed_out hard-wired.
tryOutput_AlwaysTimedOut(result) ==
  SuccessOutput(result.response, TRUE,
                getActivity(collector, getCount(heartbeat)), result.metadata)

\* Variant: timed_out reports the deadline only when no shutdown was requested.
tryOutput_TimeoutOnly(result) ==
  SuccessOutput(result.response, didTimeout /\ ~didShutdown,
                getActivity(collector, getCount(heartbeat)), result.metadata)

\* The Output built in the try block.
tryOutput(result) ==
  SuccessOutput(result.response, didTimeout \/ didShutdown,
                getActivity(collector, getCount(heartbeat)), result.metadata)

\* Variant: cancellation recognised by the error's name alone.
isAbort_NameOnly(err) == err.isError /\ err.name = "AbortError"

\* Variant: the name test dropped from the instanceof conjunct.
isAbort_AnyError(err) == didTimeout \/ didShutdown \/ err.isError \/ aborted

isAbort(err) ==
  \/ didTimeout
  \/ didShutdown
  \/ (err.isError /\ err.name = "AbortError")
  \/ aborted

\* The catch block raises only when it has to print a value it cannot print.
catchThrows(err) == ~isAbort(err) /\ ~err.isError /\ ~err.printable

\* Variant: the placeholder asks didTimeout first.
catchOutput_TimeoutFirst(err) ==
  IF isAbort(err)
    THEN SuccessOutput(IF didTimeout THEN TIMEOUT_PLACEHOLDER ELSE SHUTDOWN_PLACEHOLDER,
                       TRUE, getActivity(collector, getCount(heartbeat)), "{}")
    ELSE ErrorOutput(errText(err), "SDK_ERROR",
                     getActivity(collector, getCount(heartbeat)))

\* Variant: the catch block reports a cancellation as a failure.
catchOutput_AbortIsError(err) ==
  ErrorOutput(errText(err), "SDK_ERROR", getActivity(collector, getCount(heartbeat)))

\* The Output built in the catch block.
catchOutput(err) ==
  IF isAbort(err)
    THEN SuccessOutput(IF didShutdown THEN SHUTDOWN_PLACEHOLDER ELSE TIMEOUT_PLACEHOLDER,
                       TRUE, getActivity(collector, getCount(heartbeat)), "{}")
    ELSE ErrorOutput(errText(err), "SDK_ERROR",
                     getActivity(collector, getCount(heartbeat)))

\* The value the catch block receives.
caught ==
  IF settlement.how = "threw" THEN settlement.err ELSE tryThrown(settlement.result)

\* Variant: the continuation runs only once the deadline timer has run off.
ExecuteResume_WaitsForTimer ==
  /\ pc = "settled"
  /\ ~timeoutId
  /\ cleanup
  /\ IF settlement.how = "returned" /\ tryThrown(settlement.result) = NoError
       THEN /\ handledBy' = "try"
            /\ writeOutput(tryOutput(settlement.result))
            /\ UNCHANGED rejection
       ELSE IF ~catchThrows(caught)
         THEN /\ handledBy' = "catch"
              /\ writeOutput(catchOutput(caught))
              /\ UNCHANGED rejection
         ELSE /\ rejection' = NotPrintable
              /\ pc' = "rejected"
              /\ UNCHANGED << handledBy, stdout, exitCode >>
  /\ UNCHANGED << argsKind, engine, firstTrigger, auxVars, lastUpdate, skillScriptDirs, pathAtStart,
                  originalPath, didTimeout, didShutdown, aborted, sigReceived, collector,
                  settlement, stderr >>

\* The continuation of execute(): the rest of the try block and, when the
\* adapter threw or the try block raises, the catch block.
ExecuteResume ==
  /\ pc = "settled"
  /\ cleanup
  /\ IF settlement.how = "returned" /\ tryThrown(settlement.result) = NoError
       THEN /\ handledBy' = "try"
            /\ writeOutput(tryOutput(settlement.result))
            /\ UNCHANGED rejection
       ELSE IF ~catchThrows(caught)
         THEN /\ handledBy' = "catch"
              /\ writeOutput(catchOutput(caught))
              /\ UNCHANGED rejection
         ELSE /\ rejection' = NotPrintable
              /\ pc' = "rejected"
              /\ UNCHANGED << handledBy, stdout, exitCode >>
  /\ UNCHANGED << argsKind, engine, firstTrigger, auxVars, lastUpdate, skillScriptDirs, pathAtStart,
                  originalPath, didTimeout, didShutdown, aborted, sigReceived, collector,
                  settlement, stderr >>

\* Variant: no rejection handler; the process dies of the unhandled rejection.
RunCatch_Unhandled ==
  /\ pc = "rejected"
  /\ pc' = "exited"
  /\ exitCode' = 1
  /\ UNCHANGED << argsKind, engine, firstTrigger, auxVars, lastUpdate, skillScriptDirs, pathAtStart, pathEnv,
                  originalPath, stderrWrite, originalStderrWrite, listeners, timeoutId,
                  didTimeout, didShutdown, aborted, sigReceived, heartbeat, collector,
                  settlement, rejection, handledBy, stdout, stderr >>

\* The .catch callback run() attaches to execute().
RunCatch ==
  /\ pc = "rejected"
  /\ handledBy' = "run.catch"
  /\ stdout' = Append(stdout, ErrorOutput(errText(rejection), "SDK_ERROR", EmptyActivity))
  /\ exitCode' = 1
  /\ pc' = "exited"
  /\ UNCHANGED << argsKind, engine, firstTrigger, auxVars, lastUpdate, skillScriptDirs, pathAtStart, pathEnv,
                  originalPath, stderrWrite, originalStderrWrite, listeners, timeoutId,
                  didTimeout, didShutdown, aborted, sigReceived, heartbeat, collector,
                  settlement, rejection, stderr >>

\* ------------------------------------------------------------------- Next
Next ==
  \/ RunInvalidArgs
  \/ ExecuteStart
  \/ HeartbeatTick
  \/ DeadlineFires
  \/ \E sig \in Signals : shutdownHandler(sig)
  \/ \E activity \in Descriptions : onHeartbeat(activity)
  \/ \E item \in RunItems : onItem(item)
  \/ \E text \in BackendTexts, shape \in shapesOf(engine) : AdapterReturns(text, shape)
  \/ \E err \in AdapterErrors : AdapterThrows(err)
  \/ \E subtype \in ResultSubtypes : ClaudeResultMessage(subtype)
  \/ \E chunk \in InProcessWrites : StderrWrite(chunk)
  \/ ExecuteResume
  \/ RunCatch

Spec == Init /\ [][Next]_vars

\* The event loop runs every callback that is due: the synchronous start, a
\* due timer, the continuation of a settled await, a rejection handler.  The
\* adapter is not obliged to call back or to settle.
FairSpec ==
  /\ Spec
  /\ WF_vars(RunInvalidArgs)
  /\ WF_vars(ExecuteStart)
  /\ WF_vars(HeartbeatTick)
  /\ WF_vars(DeadlineFires)
  /\ WF_vars(ExecuteResume)
  /\ WF_vars(RunCatch)

\* ------------------------------------------------- PATH around a run
\* The codex engine started under every initial PATH, with and without a
\* skill that has scripts.
PathInit ==
  \E env \in InitialPaths, dirs \in SkillScriptDirChoices :
    InitWith(env, dirs) /\ ArgsParsed /\ engine = "claude" /\ AuxIdle

PathSpec == PathInit /\ [][Next]_vars

\* ------------------------------------------- CodexEngine.run on its own
\* getAllServerNames() returns `known`; config.mcpServers, resolved from the
\* requested clusters of the same file, has the keys `requested`.
CodexInit ==
  /\ InitWith(PathString(<< "/usr/bin" >>), << >>)
  /\ argsKind = "ok"
  /\ engine = "codex"
  /\ \E build \in CodexBuilds, known \in SUBSET ServerNames :
       \E requested \in SUBSET known :
         codexRun = [CodexNotStarted EXCEPT !.build = build, !.known = known,
                                            !.requested = requested]
  /\ cliParse = ArgvNotModelled
  /\ opencodeRun = OpenCodeNotStarted
  /\ claudeRun = ClaudeNotStarted

\* The statements of CodexEngine.run up to `new Codex(codexOptions)`.
CodexBuildsOptions ==
  /\ codexRun.phase = "idle"
  /\ codexRun' = [codexRun EXCEPT
       !.phase = "configured",
       !.injected = configInjected(codexRun.build, codexRun.requested),
       !.override = mcpOverrideOf(codexRun.build, codexRun.known, codexRun.requested)]
  /\ UNCHANGED << runVars, cliParse, opencodeRun, claudeRun >>

CodexNext == CodexBuildsOptions

CodexSpec == CodexInit /\ [][CodexNext]_vars

\* ------------------------------------------- parseCliArgs before the run
\* The process before parseCliArgs has looked at argv.
ParseInit ==
  /\ InitWith(PathString(<< "/usr/bin" >>), << >>)
  /\ argsKind = "unparsed"
  /\ engine = "codex"
  /\ codexRun = CodexNotStarted
  /\ opencodeRun = OpenCodeNotStarted
  /\ claudeRun = ClaudeNotStarted
  /\ \E timeoutArg \in TimeoutArgs, effortArg \in EffortArgs, restValid \in BOOLEAN :
       cliParse = [ArgvNotModelled EXCEPT !.phase = "argv", !.timeoutArg = timeoutArg,
                                          !.effortArg = effortArg, !.restValid = restValid]

\* const args = parseCliArgs()
ParseCliArgs ==
  /\ pc = "init"
  /\ cliParse.phase = "argv"
  /\ LET parsed == parseDeadline(cliParse.timeoutArg, cliParse.effortArg, cliParse.restValid)
     IN  /\ cliParse' = [cliParse EXCEPT !.phase = "parsed", !.kind = parsed.kind,
                                         !.timeout = parsed.timeout]
         /\ argsKind' = parsed.kind
  /\ UNCHANGED << pc, engine, firstTrigger, codexRun, opencodeRun, claudeRun, lastUpdate, skillScriptDirs,
                  pathAtStart, pathEnv, originalPath, stderrWrite, originalStderrWrite,
                  listeners, timeoutId, didTimeout, didShutdown, aborted, sigReceived,
                  heartbeat, collector, settlement, rejection, handledBy, stdout, stderr,
                  exitCode >>

\* run() up to the await in execute: parseCliArgs, then either the
\* INVALID_ARGS exit or execute arming the deadline with config.timeout.
ParseNext ==
  \/ ParseCliArgs
  \/ RunInvalidArgs
  \/ ExecuteStart

ParseSpec == ParseInit /\ [][ParseNext]_vars

\* ------------------------------------------- OpenCodeEngine.run on its own
OpenCodeInit ==
  /\ InitWith(PathString(<< "/usr/bin" >>), << >>)
  /\ argsKind = "ok"
  /\ engine = "opencode"
  /\ codexRun = CodexNotStarted
  /\ cliParse = ArgvNotModelled
  /\ opencodeRun = OpenCodeNotStarted
  /\ claudeRun = ClaudeNotStarted

\* runWithClient or runSync throws: run()'s finally block is next.
throwInner(run, err) ==
  [run EXCEPT !.phase = "finally", !.inner = [how |-> "threw", response |-> << >>, err |-> err]]

\* runWithClient or runSync returns `response`: run()'s finally block is next.
returnInner(run, response) ==
  [run EXCEPT !.phase = "finally",
              !.inner = [how |-> "returned", response |-> response, err |-> ""]]

\* The statements after the event loop, and runSync's after its parts loop:
\* without collected text the messages are fetched, otherwise the result
\* is returned.
afterLoop(run) ==
  IF joinedText(run.textParts) = << >>
  THEN [run EXCEPT !.phase = "fetching"]
  ELSE returnInner(run, joinedText(run.textParts))

\* One round of the `for await` body on an event, the signal not being set.
onEvent_AnySession(run, event) ==
  LET seen == [run EXCEPT !.lastActivity = event.type]
      part == event.part
      info == event.info
  IN  IF event.type = "message.part.updated"
      THEN IF part.type = "text"
           THEN LET item == [type |-> "message", summary |-> part.text]
                IN  [seen EXCEPT !.textParts = setTextPart(run.textParts, part.id, part.text),
                                 !.reported = Append(run.reported, item),
                                 !.items = Append(run.items, item)]
           ELSE IF part.type \in {"tool-invocation", "tool"}
           THEN LET item == [type |-> "mcp_call", summary |-> part.toolName]
                IN  [seen EXCEPT !.reported = Append(run.reported, item),
                                 !.items = Append(run.items, item)]
           ELSE seen
      ELSE IF event.type = "message.updated"
      THEN IF info.role = "assistant"
           THEN [seen EXCEPT !.cost = IF info.cost # 0 THEN info.cost ELSE run.cost,
                             !.tokens = info.tokens]
           ELSE seen
      ELSE IF event.type = "session.idle"
      THEN afterLoop(seen)
      ELSE IF event.type = "session.error"
      THEN throwInner(seen, "OpenCode session error")
      ELSE seen

\* One round of the `for await` body on an event, the signal not being set.
onEvent(run, event) ==
  LET seen == [run EXCEPT !.lastActivity = event.type]
      part == event.part
      info == event.info
  IN  IF event.type = "message.part.updated"
      THEN IF part.type = "text" /\ part.sessionID = OwnSession
           THEN LET item == [type |-> "message", summary |-> part.text]
                IN  [seen EXCEPT !.textParts = setTextPart(run.textParts, part.id, part.text),
                                 !.reported = Append(run.reported, item),
                                 !.items = Append(run.items, item)]
           ELSE IF part.sessionID = OwnSession /\ part.type \in {"tool-invocation", "tool"}
           THEN LET item == [type |-> "mcp_call", summary |-> part.toolName]
                IN  [seen EXCEPT !.reported = Append(run.reported, item),
                                 !.items = Append(run.items, item)]
           ELSE seen
      ELSE IF event.type = "message.updated"
      THEN IF info.role = "assistant" /\ info.sessionID = OwnSession
           THEN [seen EXCEPT !.cost = IF info.cost # 0 THEN info.cost ELSE run.cost,
                             !.tokens = info.tokens]
           ELSE seen
      ELSE IF event.type = "session.idle"
      THEN IF event.sessionID = OwnSession THEN afterLoop(seen) ELSE seen
      ELSE IF event.type = "session.error"
      THEN IF event.sessionID = OwnSession
           THEN throwInner(seen, "OpenCode session error")
           ELSE seen
      ELSE seen

\* OpenCodeEngine.run up to `await createOpencode(...)`.
OpenCodeRunStarts ==
  /\ opencodeRun.phase = "idle"
  /\ opencodeRun' = [opencodeRun EXCEPT !.phase = "starting",
                                        !.lastActivity = "starting opencode server"]
  /\ UNCHANGED << runVars, codexRun, cliParse, claudeRun >>

\* createOpencode resolves: the server runs, and runWithClient goes on to
\* `await client.session.create(...)` unless the signal is already set.
createOpencodeResolves ==
  /\ opencodeRun.phase = "starting"
  /\ LET started == [opencodeRun EXCEPT !.serverStarted = TRUE]
     IN  opencodeRun' =
           IF opencodeRun.signalAborted
           THEN throwInner(started, "Aborted")
           ELSE [started EXCEPT !.phase = "creating", !.lastActivity = "creating session"]
  /\ UNCHANGED << runVars, codexRun, cliParse, claudeRun >>

\* createOpencode rejects: run() rejects before `opencode.server` exists.
createOpencodeRejects ==
  /\ opencodeRun.phase = "starting"
  /\ opencodeRun' = [opencodeRun EXCEPT
       !.phase = "settled",
       !.outcome = [how |-> "threw", response |-> << >>, err |-> "createOpencode failed"]]
  /\ UNCHANGED << runVars, codexRun, cliParse, claudeRun >>

\* client.session.create settles; with a session, registerAbortHandler and
\* the statements up to `await client.global.event()`.
sessionCreateSettles(res) ==
  /\ opencodeRun.phase = "creating"
  /\ opencodeRun' =
       IF res = "rejected" THEN throwInner(opencodeRun, "connection refused")
       ELSE IF res = "error" THEN throwInner(opencodeRun, "Failed to create session")
       ELSE IF res = "nodata" THEN throwInner(opencodeRun, "Session creation returned no data")
       ELSE LET session == [opencodeRun EXCEPT !.sessionId = OwnSession]
            IN  IF opencodeRun.signalAborted THEN throwInner(session, "Aborted")
                ELSE [session EXCEPT !.abortListener = TRUE, !.phase = "subscribing",
                                     !.lastActivity = "subscribing to events"]
  /\ UNCHANGED << runVars, codexRun, cliParse, claudeRun >>

\* client.global.event() settles: with a stream, the statements up to
\* `await client.session.promptAsync(...)`; without one, runSync up to
\* `await client.session.prompt(...)`.
eventSubscribeSettles(hasStream) ==
  /\ opencodeRun.phase = "subscribing"
  /\ opencodeRun' =
       IF hasStream
       THEN IF opencodeRun.signalAborted THEN throwInner(opencodeRun, "Aborted")
            ELSE [opencodeRun EXCEPT !.phase = "prompting", !.lastActivity = "sending prompt"]
       ELSE LET sync == [opencodeRun EXCEPT
                           !.lastActivity = "using sync prompt (SSE unavailable)"]
            IN  IF opencodeRun.signalAborted THEN throwInner(sync, "Aborted")
                ELSE [sync EXCEPT !.phase = "syncPrompt"]
  /\ UNCHANGED << runVars, codexRun, cliParse, claudeRun >>

\* client.session.promptAsync settles; the event loop starts on success.
promptAsyncSettles(res) ==
  /\ opencodeRun.phase = "prompting"
  /\ opencodeRun' =
       IF res = "rejected" THEN throwInner(opencodeRun, "prompt request failed")
       ELSE IF res = "error" THEN throwInner(opencodeRun, "promptAsync failed")
       ELSE [opencodeRun EXCEPT !.phase = "events"]
  /\ UNCHANGED << runVars, codexRun, cliParse, claudeRun >>

\* The stream yields `event`: the loop breaks if the signal is set, and
\* handles the event otherwise.
handleEvent(event) ==
  /\ opencodeRun.phase = "events"
  /\ opencodeRun.handled < MaxEvents
  /\ LET taken == [opencodeRun EXCEPT !.handled = @ + 1, !.lastEvent = event]
     IN  opencodeRun' = IF opencodeRun.signalAborted THEN afterLoop(taken)
                        ELSE onEvent(taken, event)
  /\ UNCHANGED << runVars, codexRun, cliParse, claudeRun >>

\* The stream ends without a session.idle.
streamEnds ==
  /\ opencodeRun.phase = "events"
  /\ opencodeRun' = afterLoop([opencodeRun EXCEPT !.lastEvent = NoEvent])
  /\ UNCHANGED << runVars, codexRun, cliParse, claudeRun >>

\* runSync: client.session.prompt settles; its parts and its info (a cost
\* of 3 and some tokens) are read, then the result is returned or the
\* messages are fetched.
syncPromptSettles(res, parts) ==
  /\ opencodeRun.phase = "syncPrompt"
  /\ opencodeRun' =
       IF res = "rejected" THEN throwInner(opencodeRun, "prompt request failed")
       ELSE IF res = "error" THEN throwInner(opencodeRun, "Prompt failed")
       ELSE IF res = "nodata" THEN throwInner(opencodeRun, "Prompt returned no data")
       ELSE LET tools == [type |-> "mcp_call", summary |-> "read"]
                read == IF "tool" \in parts
                        THEN [opencodeRun EXCEPT !.reported = Append(@, tools),
                                                 !.items = Append(@, tools)]
                        ELSE opencodeRun
                text == IF "text" \in parts
                        THEN [read EXCEPT !.textParts =
                                << [id |-> "p1", text |-> "correct response"] >>]
                        ELSE read
                info == [text EXCEPT !.cost = 3,
                                     !.tokens = [input |-> 7, output |-> 2, reasoning |-> 1]]
            IN  afterLoop(info)
  /\ UNCHANGED << runVars, codexRun, cliParse, claudeRun >>

\* fetchMessages settles with the assistant texts it found, "" on failure.
fetchMessagesSettles(fetched) ==
  /\ opencodeRun.phase = "fetching"
  /\ opencodeRun' = returnInner(opencodeRun,
                                IF fetched = "" THEN << "(no text response)" >>
                                ELSE << fetched >>)
  /\ UNCHANGED << runVars, codexRun, cliParse, claudeRun >>

\* run()'s finally block, then run() settles as runWithClient did.
runFinally_OnlyOnReturn ==
  /\ opencodeRun.phase = "finally"
  /\ opencodeRun' = [opencodeRun EXCEPT
       !.closes = IF opencodeRun.inner.how = "returned" THEN @ + 1 ELSE @,
       !.phase = "settled",
       !.outcome = opencodeRun.inner]
  /\ UNCHANGED << runVars, codexRun, cliParse, claudeRun >>

\* run()'s finally block, then run() settles as runWithClient did.
runFinally ==
  /\ opencodeRun.phase = "finally"
  /\ opencodeRun' = [opencodeRun EXCEPT !.closes = @ + 1, !.phase = "settled",
                                        !.outcome = opencodeRun.inner]
  /\ UNCHANGED << runVars, codexRun, cliParse, claudeRun >>

\* Variant: the listener asks the server for nothing.
signalAborts_NoRequest ==
  /\ opencodeRun.phase \notin {"idle", "finally", "settled"}
  /\ ~opencodeRun.signalAborted
  /\ opencodeRun' = [opencodeRun EXCEPT
       !.signalAborted = TRUE,
       !.abortedAt = opencodeRun.phase,
       !.abortListener = FALSE,
       !.sessionAborts = @]
  /\ UNCHANGED << runVars, codexRun, cliParse, claudeRun >>

\* config.signal fires while the adapter waits: the listener of
\* registerAbortHandler, if registered, asks the server to abort the session.
signalAborts ==
  /\ opencodeRun.phase \notin {"idle", "finally", "settled"}
  /\ ~opencodeRun.signalAborted
  /\ opencodeRun' = [opencodeRun EXCEPT
       !.signalAborted = TRUE,
       !.abortedAt = opencodeRun.phase,
       !.abortListener = FALSE,
       !.sessionAborts = IF opencodeRun.abortListener THEN @ + 1 ELSE @]
  /\ UNCHANGED << runVars, codexRun, cliParse, claudeRun >>

OpenCodeNext ==
  \/ OpenCodeRunStarts
  \/ createOpencodeResolves
  \/ createOpencodeRejects
  \/ \E res \in {"data", "error", "nodata", "rejected"} : sessionCreateSettles(res)
  \/ \E hasStream \in BOOLEAN : eventSubscribeSettles(hasStream)
  \/ \E res \in {"ok", "error", "rejected"} : promptAsyncSettles(res)
  \/ \E event \in OpenCodeEvents : handleEvent(event)
  \/ streamEnds
  \/ \E res \in {"data", "error", "nodata", "rejected"}, parts \in SUBSET {"text", "tool"} :
       syncPromptSettles(res, parts)
  \/ \E fetched \in {"", "fetched text"} : fetchMessagesSettles(fetched)
  \/ runFinally
  \/ signalAborts

OpenCodeSpec == OpenCodeInit /\ [][OpenCodeNext]_vars

\* OpenCodeSpec with every request of the adapter answered and every
\* continuation of the adapter run; the backend owes no event, and nothing
\* obliges the signal to be set.
OpenCodeFairSpec ==
  /\ OpenCodeSpec
  /\ WF_vars(OpenCodeRunStarts)
  /\ WF_vars(createOpencodeResolves \/ createOpencodeRejects)
  /\ WF_vars(\E res \in {"data", "error", "nodata", "rejected"} : sessionCreateSettles(res))
  /\ WF_vars(\E hasStream \in BOOLEAN : eventSubscribeSettles(hasStream))
  /\ WF_vars(\E res \in {"ok", "error", "rejected"} : promptAsyncSettles(res))
  /\ WF_vars(\E res \in {"data", "error", "nodata", "rejected"}, parts \in SUBSET {"text", "tool"} :
               syncPromptSettles(res, parts))
  /\ WF_vars(\E fetched \in {"", "fetched text"} : fetchMessagesSettles(fetched))
  /\ WF_vars(runFinally)

\* ------------------------------------------- ClaudeEngine.run on its own
ClaudeInit ==
  /\ InitWith(PathString(<< "/usr/bin" >>), << >>)
  /\ argsKind = "ok"
  /\ engine = "claude"
  /\ codexRun = CodexNotStarted
  /\ cliParse = ArgvNotModelled
  /\ opencodeRun = OpenCodeNotStarted
  /\ claudeRun = ClaudeNotStarted

\* Tools an assistant message may use, one per branch of classifyToolUse.
ToolNames == {"Edit", "Bash", "Read", "mcp__exa__search", "TodoWrite"}

\* Messages query() may yield: type, the subtype of a result message, the
\* tool of an assistant message's tool_use block ("" for none) and the
\* result text.
ClaudeMessages ==
  {[type |-> "system", subtype |-> "", tool |-> "", result |-> ""],
   [type |-> "user", subtype |-> "", tool |-> "", result |-> ""],
   [type |-> "tool_progress", subtype |-> "", tool |-> "Bash", result |-> ""]}
  \cup
  {[type |-> "assistant", subtype |-> "", tool |-> t, result |-> ""] : t \in ToolNames \cup {""}}
  \cup
  {[type |-> "result", subtype |-> st, tool |-> "", result |-> txt] :
     st \in ResultSubtypes, txt \in {"", "claude text"}}

\* classifyToolUse; null is the item of type "null".
classifyToolUse(toolName) ==
  IF toolName \in {"Edit", "Write"} THEN [type |-> "file_change", summary |-> "a.ts"]
  ELSE IF toolName = "Bash" THEN [type |-> "command", summary |-> "bun test"]
  ELSE IF toolName = "Read" THEN [type |-> "file_read", summary |-> "a.ts"]
  ELSE IF toolName = "mcp__exa__search" THEN [type |-> "mcp_call", summary |-> toolName]
  ELSE [type |-> "null", summary |-> ""]

\* The last status text the loop body hands to onHeartbeat for a message.
describeMessage(message) ==
  IF message.type = "system" THEN "system init: ready"
  ELSE IF message.type = "assistant" THEN "assistant response"
  ELSE IF message.type = "user" THEN "user message (tool result)"
  ELSE IF message.type = "result" THEN "result"
  ELSE "tool progress"

\* ClaudeEngine.run settles.
claudeSettles(run, how, response, err) ==
  [run EXCEPT !.phase = "settled",
              !.outcome = [how |-> how, response |-> response, err |-> err]]

\* Variant: the listener is added only after the first await.
ClaudeRunStarts_ForwardsLate ==
  /\ claudeRun.phase = "idle"
  /\ claudeRun' = [claudeRun EXCEPT !.phase = "querying",
                                    !.lastActivity = "starting claude agent"]
  /\ UNCHANGED << runVars, codexRun, cliParse, opencodeRun >>

\* execute calls ClaudeEngine.run, which runs without a break up to the
\* first `for await` step: it builds the options, adds the forwarding
\* listener to config.signal and reports "starting claude agent".
ClaudeRunStarts ==
  /\ claudeRun.phase = "idle"
  /\ claudeRun' = [claudeRun EXCEPT !.phase = "querying",
                                    !.forwarding = ~claudeRun.signalAborted,
                                    !.lastActivity = "starting claude agent"]
  /\ UNCHANGED << runVars, codexRun, cliParse, opencodeRun >>

\* The deadline callback or shutdownHandler calls abort() on the run's
\* controller while the adapter waits: the signal's listeners run at once,
\* the forwarding listener among them, once.
parentAborts ==
  /\ claudeRun.phase = "querying"
  /\ ~claudeRun.signalAborted
  /\ claudeRun' = [claudeRun EXCEPT !.signalAborted = TRUE,
                                    !.sdkAborted = claudeRun.forwarding,
                                    !.forwarding = FALSE]
  /\ UNCHANGED << runVars, codexRun, cliParse, opencodeRun >>

\* query() yields `message`: one round of the loop body.
claudeMessage(message) ==
  /\ claudeRun.phase = "querying"
  /\ claudeRun.handled < MaxMessages
  /\ LET seen == [claudeRun EXCEPT !.handled = @ + 1,
                                   !.lastActivity = describeMessage(message)]
         item == classifyToolUse(message.tool)
     IN  claudeRun' =
           IF message.type = "assistant" /\ message.tool # "" /\ item.type # "null"
           THEN [seen EXCEPT !.items = Append(@, item)]
           ELSE IF message.type = "result"
           THEN IF message.subtype = "success"
                THEN [seen EXCEPT !.finalResult =
                        IF message.result = "" THEN "(no response)" ELSE message.result]
                ELSE claudeSettles(seen, "threw", "", "Claude agent error")
           ELSE seen
  /\ UNCHANGED << runVars, codexRun, cliParse, opencodeRun >>

\* query() ends: the run returns the final result, or throws without one.
queryEnds ==
  /\ claudeRun.phase = "querying"
  /\ claudeRun' =
       IF claudeRun.finalResult = ""
       THEN claudeSettles(claudeRun, "threw", "", "No result message received")
       ELSE claudeSettles(claudeRun, "returned", claudeRun.finalResult, "")
  /\ UNCHANGED << runVars, codexRun, cliParse, opencodeRun >>

\* query() throws: an abort error once its controller is aborted, any
\* failure of the SDK otherwise.
queryThrows ==
  /\ claudeRun.phase = "querying"
  /\ claudeRun' = claudeSettles(claudeRun, "threw", "",
                                IF claudeRun.sdkAborted THEN "AbortError" ELSE "SDK failure")
  /\ UNCHANGED << runVars, codexRun, cliParse, opencodeRun >>

ClaudeNext ==
  \/ ClaudeRunStarts
  \/ parentAborts
  \/ \E message \in ClaudeMessages : claudeMessage(message)
  \/ queryEnds
  \/ queryThrows

ClaudeSpec == ClaudeInit /\ [][ClaudeNext]_vars

\* ------------------------------------------- what a report stream amounts to
\* The summaries of the reports of one type, in reported order.
SummariesOf(items, type) ==
  LET sel == SelectSeq(items, LAMBDA it : it.type = type)
  IN  [i \in 1..Len(sel) |-> sel[i].summary]

\* A sequence with every element after its first occurrence removed.
RECURSIVE FirstOccurrences(_)
FirstOccurrences(s) ==
  IF s = << >>
    THEN << >>
    ELSE LET front == SubSeq(s, 1, Len(s) - 1)
             last  == s[Len(s)]
         IN  IF \E i \in 1..Len(front) : front[i] = last
               THEN FirstOccurrences(front)
               ELSE Append(FirstOccurrences(front), last)

\* ------------------------------------------- ActivityCollector on its own
\* A new ActivityCollector receiving any sequence of addItem calls, as the
\* adapter may make them through callbacks.onItem.
ReportedItems ==
  ActivityItems \cup
  { [type |-> "file_read", summary |-> "b.ts"],
    [type |-> "command",   summary |-> "ls"],
    [type |-> "mcp_call",  summary |-> "docs/fetch"] }

CollectorInit == Init /\ argsKind = "ok" /\ engine = "codex"

Report(item) ==
  /\ Len(collector.items) < MaxReports
  /\ collector' = addItem(collector, item)
  /\ UNCHANGED << pc, argsKind, engine, firstTrigger, auxVars, lastUpdate, skillScriptDirs, pathAtStart, pathEnv,
                  originalPath, stderrWrite, originalStderrWrite, listeners,
                  timeoutId, didTimeout, didShutdown, aborted, sigReceived, heartbeat,
                  settlement, rejection, handledBy, stdout, stderr, exitCode >>

CollectorNext == \E item \in ReportedItems : Report(item)

CollectorSpec == CollectorInit /\ [][CollectorNext]_vars

\* ======================================================================
\* Properties
\* ======================================================================

\* C1: in every run, however it ends, exactly one Output document is written
\* to stdout: none before the process exits, one once it has, never two.
C1_ExactlyOneOutput ==
  /\ Len(stdout) <= 1
  /\ (pc = "exited") <=> (Len(stdout) = 1)

\* A run in which both triggers fired and the adapter then threw has exited.
C1_Witness ==
  /\ pc = "exited"
  /\ settlement.how = "threw"
  /\ didTimeout /\ didShutdown
  /\ Len(stdout) = 1

\* C2: if the cancellation signal is set when the adapter's run settles, the
\* Output is Success with timed_out = true and the exit code is 0, whether
\* the adapter returned or threw anything at all; execute() is not rejected.
C2_CancellationWins ==
  aborted =>
    /\ pc # "rejected"
    /\ pc = "exited" =>
         /\ Len(stdout) = 1
         /\ stdout[1].success
         /\ stdout[1].timed_out
         /\ exitCode = 0

C2_Witness ==
  /\ pc = "exited"
  /\ aborted
  /\ settlement.how = "threw"
  /\ settlement.err = ThrownOpaque
  /\ stdout[1].success

\* C3 as stated: if the adapter throws while the cancellation signal has
\* never been set, the Output is Error with code SDK_ERROR and exit code 1,
\* for every exception.
C3_Original ==
  (pc = "exited" /\ settlement.how = "threw" /\ ~aborted) =>
    /\ Len(stdout) = 1
    /\ ~stdout[1].success
    /\ stdout[1].code = "SDK_ERROR"
    /\ exitCode = 1

\* C3 amended: if the adapter throws while the cancellation signal has never
\* been set, the Output is Error/SDK_ERROR with exit code 1 for every thrown
\* value except an Error named "AbortError"; that one is classified as a
\* cancellation (Success, timed_out = true, exit code 0).
C3_SdkErrorUnlessAbortError ==
  (pc = "exited" /\ settlement.how = "threw" /\ ~aborted) =>
    /\ Len(stdout) = 1
    /\ IF settlement.err.isError /\ settlement.err.name = "AbortError"
         THEN stdout[1].success /\ stdout[1].timed_out /\ exitCode = 0
         ELSE ~stdout[1].success /\ stdout[1].code = "SDK_ERROR" /\ exitCode = 1

C3_Witness ==
  /\ pc = "exited"
  /\ settlement.how = "threw"
  /\ settlement.err = PlainError
  /\ ~aborted
  /\ heartbeat.heartbeatCount > 0
  /\ exitCode = 1

\* C4 as stated: if the adapter returns a result before the deadline fires
\* and no interrupt has arrived, the Output is Success with timed_out = false
\* and the exit code is 0.
C4_Original ==
  (pc = "exited" /\ settlement.how = "returned" /\ ~didTimeout /\ ~sigReceived) =>
    /\ Len(stdout) = 1
    /\ stdout[1].success
    /\ ~stdout[1].timed_out
    /\ exitCode = 0

\* C4 amended: if the adapter returns, before the deadline fires and with no
\* interrupt, a result that can be serialised into the Output, the Output is
\* Success with timed_out = false and the exit code is 0; a result that makes
\* serialising the Output raise yields Error with code SDK_ERROR and exit
\* code 1.
C4_CompletedIsSuccess ==
  (pc = "exited" /\ settlement.how = "returned" /\ ~didTimeout /\ ~sigReceived) =>
    /\ Len(stdout) = 1
    /\ IF settlement.result.shape = "ok"
         THEN /\ stdout[1].success
              /\ ~stdout[1].timed_out
              /\ exitCode = 0
         ELSE /\ ~stdout[1].success
              /\ stdout[1].code = "SDK_ERROR"
              /\ exitCode = 1

C4_Witness ==
  /\ pc = "exited"
  /\ settlement.how = "returned"
  /\ settlement.result.shape = "ok"
  /\ ~didTimeout /\ ~sigReceived
  /\ handledBy = "try"
  /\ exitCode = 0

\* C5 as stated: when an interrupt arrives while the adapter is running, the
\* Output has success = true, timed_out = true and its response is a
\* placeholder, never the response text produced by the adapter.
C5_Original ==
  (pc = "exited" /\ sigReceived) =>
    /\ Len(stdout) = 1
    /\ stdout[1].success
    /\ stdout[1].timed_out
    /\ stdout[1].response \in {SHUTDOWN_PLACEHOLDER, TIMEOUT_PLACEHOLDER}

\* C5 amended: when an interrupt arrives while the adapter is running, the
\* Output has success = true and timed_out = true; its response is a
\* placeholder (the shutdown one when the interrupt set the signal, the
\* timed-out one when the deadline had set it before) unless the adapter
\* afterwards returns a usable result, whose response text is then passed on.
C5_InterruptIsPartialSuccess ==
  (pc = "exited" /\ sigReceived) =>
    /\ Len(stdout) = 1
    /\ stdout[1].success
    /\ stdout[1].timed_out
    /\ IF settlement.how = "returned" /\ settlement.result.shape = "ok"
         THEN stdout[1].response = settlement.result.response
         ELSE stdout[1].response =
                (IF didShutdown THEN SHUTDOWN_PLACEHOLDER ELSE TIMEOUT_PLACEHOLDER)

C5_Witness ==
  /\ pc = "exited"
  /\ sigReceived /\ didShutdown /\ ~didTimeout
  /\ settlement.how = "threw"
  /\ stdout[1].response = SHUTDOWN_PLACEHOLDER

\* C6: for every run and termination class, activity.heartbeat_count in the
\* Output equals the number of heartbeat lines written to stderr.
C6_HeartbeatCountMatchesLines ==
  pc = "exited" =>
    /\ Len(stdout) = 1
    /\ stdout[1].activity.heartbeat_count =
         Cardinality({i \in 1..Len(stderr) : stderr[i].prefix = "[heartbeat]"})

\* C7: if the deadline timer and an interrupt both fire in one run, in either
\* order, exactly one Output is produced and it is Success with
\* timed_out = true.
C7_BothTriggersOneOutput ==
  (didTimeout /\ sigReceived) =>
    /\ Len(stdout) <= 1
    /\ pc # "rejected"
    /\ pc = "exited" =>
         /\ Len(stdout) = 1
         /\ stdout[1].success
         /\ stdout[1].timed_out

\* Both fired back to back, before the adapter made any callback and before
\* any heartbeat, and the adapter then returned.
C7_Witness ==
  /\ pc = "exited"
  /\ didTimeout /\ didShutdown
  /\ collector.items = << >>
  /\ heartbeat.heartbeatCount = 0
  /\ heartbeat.lastActivity = INITIALIZING
  /\ settlement.how = "returned"
  /\ handledBy = "try"

\* C8 as stated: every run eventually terminates with an Output written.
C8_Original == <>(pc = "exited" /\ Len(stdout) = 1)

\* C8 amended: every run either eventually terminates with an Output
\* written, or stays forever in the await of an adapter that never settles;
\* the deadline cancels cooperatively and interrupts nothing.
C8_TerminatesUnlessAdapterHangs ==
  \/ <>(pc = "exited" /\ Len(stdout) = 1)
  \/ <>[](pc = "running")

\* The deadline elapsed while the adapter was busy, and the run terminated.
C8_Witness ==
  /\ pc = "exited"
  /\ didTimeout /\ ~sigReceived
  /\ Len(stdout) = 1
  /\ heartbeat.heartbeatCount = MaxTicks

\* C9: if the orchestrator's own finalization raises (writing the Output in
\* the try block, or printing the error in the catch block), a
\* well-formed Output document has still been written when the process exits.
C9_OutputDespiteFinalizeError ==
  (/\ pc = "exited"
   /\ \/ rejection # NoError
      \/ (settlement.how = "returned" /\ tryThrown(settlement.result) # NoError)) =>
    /\ Len(stdout) = 1
    /\ \/ /\ stdout[1].success
          /\ stdout[1].timed_out \in BOOLEAN
          /\ stdout[1].response # Absent
          /\ stdout[1].metadata # Absent
          /\ stdout[1].error = Absent /\ stdout[1].code = Absent
       \/ /\ ~stdout[1].success
          /\ stdout[1].code \in {"INVALID_ARGS", "MISSING_API_KEY", "SDK_ERROR"}
          /\ stdout[1].error # Absent
          /\ stdout[1].response = Absent /\ stdout[1].metadata = Absent
    /\ stdout[1].activity.heartbeat_count \in 0..heartbeat.heartbeatCount
    /\ exitCode = exitCodeOf(stdout[1])

\* The catch block itself raised and run()'s handler wrote the Output.
C9_Witness ==
  /\ pc = "exited"
  /\ rejection = NotPrintable
  /\ handledBy = "run.catch"
  /\ Len(stdout) = 1

\* C10: on every path by which a run exits, process.stderr.write is the
\* original function again and an Output document has been written.
C10_ReleasedAndWritten ==
  pc = "exited" =>
    /\ stderrWrite = "original"
    /\ originalStderrWrite = Null
    /\ Len(stdout) = 1

\* The exit after an exception while writing the Output in the try block.
C10_Witness ==
  /\ pc = "exited"
  /\ settlement.how = "returned"
  /\ settlement.result.shape = "unserializable"
  /\ handledBy = "catch"
  /\ stderrWrite = "original"

\* C11: in every termination class of a run that reached the adapter, the
\* Output's activity accounts for every item the adapter reported through
\* onItem: each reported path, command and tool call is in its list.
C11_ActivityAccountsForItems ==
  (pc = "exited" /\ argsKind = "ok") =>
    LET activity == stdout[1].activity
        items    == collector.items
    IN  /\ activity.files_changed = FirstOccurrences(SummariesOf(items, "file_change"))
        /\ activity.files_read    = FirstOccurrences(SummariesOf(items, "file_read"))
        /\ activity.commands_run  = SummariesOf(items, "command")
        /\ activity.mcp_calls     = SummariesOf(items, "mcp_call")

\* C12: the process exit code is 0 exactly when the one Output written has
\* success=true, whatever its timed_out, and 1 exactly when it has
\* success=false.
C12_ExitCodeMatchesSuccess ==
  pc = "exited" =>
    /\ Len(stdout) = 1
    /\ (exitCode = 0) <=> stdout[1].success
    /\ (exitCode = 1) <=> ~stdout[1].success

C12_Witness ==
  /\ pc = "exited"
  /\ handledBy = "catch"
  /\ stdout[1].success
  /\ stdout[1].timed_out
  /\ exitCode = 0

\* C13 as stated: after a cancellation (deadline or shutdown request) the
\* Output written is the one the run writes when the adapter raises, whether
\* the adapter returned a best-effort result or raised.
C13_Original ==
  (pc = "exited" /\ argsKind = "ok" /\ (didTimeout \/ didShutdown)) =>
    stdout[1] = catchOutput(PlainError)

\* C13: after a cancellation the Output written has the same success,
\* timed_out, activity and exit code whether the adapter returned or raised;
\* response and metadata are the adapter's own when it returned a result that
\* could be written, and the placeholder text and {} otherwise.
C13_SameClassAfterCancel ==
  (pc = "exited" /\ argsKind = "ok" /\ (didTimeout \/ didShutdown)) =>
    LET raised == catchOutput(PlainError)
        out    == stdout[1]
    IN  /\ out.success = raised.success
        /\ out.timed_out = raised.timed_out
        /\ out.activity = raised.activity
        /\ exitCode = exitCodeOf(raised)
        /\ handledBy \in {"try", "catch"}
        /\ handledBy = "catch" => out = raised
        /\ handledBy = "try" =>
              /\ settlement.how = "returned"
              /\ out.response = settlement.result.response
              /\ out.metadata = settlement.result.metadata

C13_Witness ==
  /\ pc = "exited"
  /\ didShutdown
  /\ settlement.how = "returned"
  /\ handledBy = "try"
  /\ stdout[1].response = "adapter text"
  /\ stdout[1].timed_out
  /\ stdout[1].activity.files_changed = << "a.ts" >>

\* C14 as stated: when the adapter completes and the backend's response text
\* was empty, the Output has success=true and its response is the
\* empty-result placeholder, not the empty string and not an Error.
C14_Original ==
  (pc = "exited" /\ settlement.how = "returned" /\ settlement.text = "") =>
    /\ stdout[1].success
    /\ stdout[1].response = emptyPlaceholder(engine)
    /\ stdout[1].response # ""

\* C14: when the adapter completes, the backend's response text was empty
\* and the result can be serialised, the Output has success=true, exit code
\* 0, and its response is the engine's empty-result placeholder ("(no
\* response)" for codex and claude, "(no text response)" for opencode),
\* never the empty string.
C14_EmptyTextIsPlaceholder ==
  (pc = "exited" /\ settlement.how = "returned" /\ settlement.text = ""
     /\ settlement.result.shape = "ok") =>
    /\ stdout[1].success
    /\ stdout[1].response = emptyPlaceholder(engine)
    /\ stdout[1].response \in {NO_RESPONSE, NO_TEXT_RESPONSE}
    /\ stdout[1].response # ""
    /\ exitCode = 0

C14_Witness ==
  /\ pc = "exited"
  /\ engine = "opencode"
  /\ settlement.how = "returned"
  /\ settlement.text = ""
  /\ ~aborted
  /\ stdout[1].success
  /\ stdout[1].response = NO_TEXT_RESPONSE

\* C15: files_changed holds each path reported as file_change exactly once,
\* in order of first report, however often it was reported; files_read the
\* same over file_read reports; a path is in a list only if it was reported
\* under that list's type.
C15_FilesDeduplicated ==
  LET activity == getActivity(collector, getCount(heartbeat))
      changed  == SummariesOf(collector.items, "file_change")
      read     == SummariesOf(collector.items, "file_read")
      NoRepeat(s)   == \A i, j \in 1..Len(s) : s[i] = s[j] => i = j
      Within(s, t)  == \A i \in 1..Len(s) : \E j \in 1..Len(t) : s[i] = t[j]
  IN  /\ activity.files_changed = FirstOccurrences(changed)
      /\ activity.files_read = FirstOccurrences(read)
      /\ NoRepeat(activity.files_changed) /\ NoRepeat(activity.files_read)
      /\ Within(changed, activity.files_changed) /\ Within(activity.files_changed, changed)
      /\ Within(read, activity.files_read) /\ Within(activity.files_read, read)

C15_Witness ==
  /\ SummariesOf(collector.items, "file_change") = << "a.ts", "b.ts", "a.ts" >>
  /\ getActivity(collector, 0).files_changed = << "a.ts", "b.ts" >>
  /\ getActivity(collector, 0).files_read = << >>

\* C16: commands_run is exactly the summaries reported with type command,
\* in reported order and with every repetition; mcp_calls is the same for
\* type mcp_call.
C16_CommandsAndCallsKept ==
  LET activity == getActivity(collector, getCount(heartbeat))
  IN  /\ activity.commands_run = SummariesOf(collector.items, "command")
      /\ activity.mcp_calls = SummariesOf(collector.items, "mcp_call")
      /\ Len(activity.commands_run) + Len(activity.mcp_calls)
            = Cardinality({i \in 1..Len(collector.items) :
                             collector.items[i].type \in {"command", "mcp_call"}})

C16_Witness ==
  /\ Len(collector.items) = 3
  /\ getActivity(collector, 0).commands_run = << "bun test", "ls", "bun test" >>

\* C18: every heartbeat line carries the description of the most recent
\* status update the adapter made before that tick, or "initializing" if it
\* has made none; and while the run awaits the adapter a tick can fire
\* whether or not an update happened since the previous one.
C18_LineCarriesLatestUpdate ==
  /\ [](\A i \in 1..Len(stderr) :
          (stderr[i].prefix = "[heartbeat]" /\ lastUpdate = Absent)
            => stderr[i].description = INITIALIZING)
  /\ [][heartbeat'.heartbeatCount # heartbeat.heartbeatCount =>
          /\ heartbeat'.heartbeatCount = heartbeat.heartbeatCount + 1
          /\ stderr' = Append(stderr,
                 HeartbeatLine(IF lastUpdate = Absent THEN INITIALIZING ELSE lastUpdate))]_vars
  /\ []((pc = "running" /\ heartbeat.heartbeatCount < MaxTicks) => ENABLED HeartbeatTick)

\* A tick before any update and a tick after one.
C18_Witness ==
  /\ lastUpdate = "assistant response"
  /\ heartbeat.heartbeatCount = 2
  /\ stderr = << HeartbeatLine(INITIALIZING), HeartbeatLine("assistant response") >>

\* C19: once execute has begun finalization (the continuation after the
\* await has called cleanup), the heartbeat interval is cleared and no tick
\* fires: no further heartbeat line is written and the tick counter no
\* longer changes, through the end of the process.
C19_NoTickAfterFinalization ==
  /\ []((argsKind = "ok" /\ pc \in {"rejected", "exited"}) =>
          (~heartbeat.intervalId /\ ~ENABLED HeartbeatTick))
  /\ [][(pc \in {"settled", "rejected", "exited"}) =>
          (heartbeat'.heartbeatCount = heartbeat.heartbeatCount /\ stderr' = stderr)]_vars

\* Finalization has begun after two ticks and the process is still alive.
C19_Witness ==
  /\ pc = "rejected"
  /\ heartbeat.heartbeatCount = 2
  /\ Len(stderr) = 2
  /\ ~heartbeat.intervalId

\* C20: while process.stderr.write is the filter, every line that has
\* reached stderr is a heartbeat line "[heartbeat] ..."; every other write
\* is suppressed.
C20_OnlyHeartbeatLines ==
  stderrWrite = "filter" =>
    \A i \in 1..Len(stderr) : stderr[i].prefix = "[heartbeat]"

C22_InvalidArgsBeforeCore ==
  argsKind = "invalid" =>
    /\ pc \in {"init", "exited"}
    /\ stderrWrite = "original" /\ originalStderrWrite = Null
    /\ ~timeoutId
    /\ ~heartbeat.intervalId /\ heartbeat.heartbeatCount = 0
    /\ listeners = {}
    /\ settlement.how = "pending"
    /\ collector = NewActivityCollector
    /\ stderr = << >>
    /\ pathEnv = pathAtStart /\ ~originalPath.defined
    /\ pc = "exited" =>
          /\ Len(stdout) = 1
          /\ ~stdout[1].success
          /\ stdout[1].code = "INVALID_ARGS"
          /\ stdout[1].activity = EmptyActivity
          /\ exitCode = 1

C22_Witness ==
  /\ argsKind = "invalid"
  /\ pc = "exited"
  /\ stdout[1].code = "INVALID_ARGS"
  /\ exitCode = 1
  /\ stderrWrite = "original"

\* C23: an adapter does not throw when its backend stops for a normal
\* stopping condition such as the turn budget being reached; it returns a
\* result, and the run is not classified as SDK_ERROR.
C23_BudgetStopIsNotAnError ==
  settlement.stop = "error_max_turns" =>
    /\ settlement.how = "returned"
    /\ pc = "exited" => stdout[1].code # "SDK_ERROR"

\* C24: within one run the heartbeat tick counter starts at 0, increases by
\* exactly 1 on every tick (a tick being one heartbeat line written), and
\* never decreases, repeats or skips a number.
C24_TicksCountedOneByOne ==
  /\ heartbeat.heartbeatCount = 0
  /\ [](heartbeat.heartbeatCount = HeartbeatLinesIn(stderr))
  /\ [][\/ /\ heartbeat'.heartbeatCount = heartbeat.heartbeatCount
            /\ HeartbeatLinesIn(stderr') = HeartbeatLinesIn(stderr)
         \/ /\ heartbeat'.heartbeatCount = heartbeat.heartbeatCount + 1
            /\ HeartbeatLinesIn(stderr') = HeartbeatLinesIn(stderr) + 1]_vars

C24_Witness ==
  /\ pc = "running"
  /\ heartbeat.heartbeatCount = 2
  /\ lastUpdate = Absent
  /\ stderr = << HeartbeatLine(INITIALIZING), HeartbeatLine(INITIALIZING) >>

\* C25: reporting an activity item of type message changes no field of the
\* Activity snapshot: the snapshot after the report equals the one before.
C25_MessageLeavesActivityAlone ==
  [][(/\ Len(collector'.items) = Len(collector.items) + 1
      /\ collector'.items[Len(collector'.items)].type = "message")
       => getActivity(collector', getCount(heartbeat')) = getActivity(collector, getCount(heartbeat))]_vars

C25_Witness ==
  /\ Len(collector.items) = 3
  /\ collector.items[1].type = "message"
  /\ collector.items[2].type = "command"
  /\ collector.items[3].type = "message"
  /\ getActivity(collector, 0) =
       [EmptyActivity EXCEPT !.commands_run = << collector.items[2].summary >>]

\* C26: in the configuration handed to Codex, every server known to the
\* cluster configuration that was not requested is marked disabled and
\* every requested server is marked enabled, for every requested set, the
\* empty one included (then all known servers are disabled).
C26_OnlyRequestedServersEnabled ==
  codexRun.phase = "configured" =>
    /\ \A n \in codexRun.known \ codexRun.requested :
         codexRun.injected /\ codexRun.override[n] = "disabled"
    /\ \A n \in codexRun.requested :
         codexRun.injected /\ codexRun.override[n] = "enabled"

\* C27: for every accepted argument set the deadline is a positive integer
\* number of milliseconds, the --timeout value when one is given and
\* otherwise the default of the chosen effort level (120000, 600000,
\* 1200000, 2400000; medium when no effort is given); a --timeout value that
\* is not a positive integer is rejected as invalid, and the deadline timer
\* is armed only for an accepted argument set.
C27_DeadlineIsPositiveInteger ==
  cliParse.phase = "parsed" =>
    LET arg    == cliParse.timeoutArg
        text   == arg.text
        effort == IF cliParse.effortArg \in {Absent, ""} THEN "medium" ELSE cliParse.effortArg
        Blank(i) == text[i] = " "
        \* the text is blanks, then digits from a to b, then blanks
        Span(a, b) ==
          /\ \A i \in 1..Len(text) : IF i < a \/ i > b THEN Blank(i) ELSE text[i] \in Digits
        Value(a, b) ==
          IF \E i \in a..b : text[i] = "7" \/ text[i] = "1"
            THEN LET D(i) == IF text[i] = "7" THEN 7 ELSE IF text[i] = "1" THEN 1 ELSE 0
                     Sum[i \in (a-1)..b] == IF i < a THEN 0 ELSE 10 * Sum[i-1] + D(i)
                 IN  Sum[b]
            ELSE 0
        IsPositiveInteger ==
          \E a, b \in 1..Len(text) : a <= b /\ Span(a, b) /\ Value(a, b) > 0
        Default ==
          CASE effort = "low" -> 120000 [] effort = "medium" -> 600000
            [] effort = "high" -> 1200000 [] effort = "xhigh" -> 2400000 [] OTHER -> 0
    IN  /\ argsKind = cliParse.kind
        /\ cliParse.kind = "ok" =>
              /\ cliParse.timeout \in Nat /\ cliParse.timeout > 0
              /\ arg.given => \E a, b \in 1..Len(text) :
                                 a <= b /\ Span(a, b) /\ cliParse.timeout = Value(a, b)
              /\ ~arg.given => cliParse.timeout = Default
        /\ (arg.given /\ ~IsPositiveInteger) => cliParse.kind = "invalid"
        /\ timeoutId => cliParse.kind = "ok"
        /\ cliParse.kind = "invalid" => pc \in {"init", "exited"}

\* " 17" was given: accepted, and the deadline timer is armed for 17 ms.
C27_Witness ==
  /\ cliParse.phase = "parsed"
  /\ cliParse.timeoutArg = [given |-> TRUE, text |-> << " ", "1", "7" >>]
  /\ cliParse.kind = "ok"
  /\ cliParse.timeout = 17
  /\ timeoutId

\* C28: once the OpenCode server has been started, server.close() is called
\* exactly once, and by the time run() settles: never before runWithClient
\* is over, never twice, and never when createOpencode gave no server;
\* whether the run returns, throws or is cancelled.
C28_ServerClosedOnceBeforeSettle ==
  /\ opencodeRun.closes =
       (IF opencodeRun.serverStarted /\ opencodeRun.phase = "settled" THEN 1 ELSE 0)
  /\ (opencodeRun.outcome.how # "pending") = (opencodeRun.phase = "settled")
  /\ opencodeRun.phase = "settled" =>
       (opencodeRun.serverStarted = (opencodeRun.inner.how # "pending"))

C28_Witness ==
  /\ opencodeRun.phase = "settled"
  /\ opencodeRun.serverStarted
  /\ opencodeRun.signalAborted
  /\ opencodeRun.outcome.how = "threw"
  /\ opencodeRun.outcome.err = "Aborted"
  /\ opencodeRun.closes = 1

\* The stream has just yielded an event of another session.
ForeignEventTaken ==
  /\ opencodeRun.phase = "events"
  /\ opencodeRun'.handled = opencodeRun.handled + 1
  /\ sessionOf(opencodeRun'.lastEvent) # OwnSession

\* The event loop is left in this step.
LoopLeft == opencodeRun.phase = "events" /\ opencodeRun'.phase # "events"

\* The stream has just yielded the run's own session.idle or session.error.
OwnEndTaken ==
  /\ opencodeRun'.handled = opencodeRun.handled + 1
  /\ opencodeRun'.lastEvent.type \in {"session.idle", "session.error"}
  /\ opencodeRun'.lastEvent.sessionID = OwnSession

\* C29 as stated: an event of another session changes nothing of the run,
\* and the loop is left only on the run's own session.idle or session.error.
C29_Original ==
  [][/\ ForeignEventTaken =>
          opencodeRun' = [opencodeRun EXCEPT !.handled = opencodeRun'.handled,
                                             !.lastEvent = opencodeRun'.lastEvent]
     /\ LoopLeft => OwnEndTaken]_vars

\* C29: an event of another session adds no text and no item, records no
\* cost and no tokens, and neither ends nor fails the run; it only renews the
\* heartbeat's activity text, and it lets the loop see a signal that is
\* already set. The loop is left on the run's own session.idle or
\* session.error, on a set signal seen at the next event, or when the
\* stream ends.
C29_ForeignEventsCollectNothing ==
  [][/\ ForeignEventTaken =>
          /\ opencodeRun'.textParts = opencodeRun.textParts
          /\ opencodeRun'.items = opencodeRun.items
          /\ opencodeRun'.reported = opencodeRun.reported
          /\ opencodeRun'.cost = opencodeRun.cost
          /\ opencodeRun'.tokens = opencodeRun.tokens
          /\ opencodeRun'.inner.how # "threw"
          /\ opencodeRun'.phase = "events" \/ opencodeRun.signalAborted
          /\ ~opencodeRun.signalAborted =>
               opencodeRun' = [opencodeRun EXCEPT
                                 !.handled = opencodeRun'.handled,
                                 !.lastEvent = opencodeRun'.lastEvent,
                                 !.lastActivity = opencodeRun'.lastEvent.type]
     /\ LoopLeft =>
          \/ OwnEndTaken
          \/ opencodeRun.signalAborted /\ opencodeRun'.handled = opencodeRun.handled + 1
          \/ opencodeRun'.lastEvent = NoEvent /\ opencodeRun'.handled = opencodeRun.handled]_vars

\* Three events were taken: the run's own text, an event of another session
\* and the run's own session.idle; the result holds the own text only.
C29_Witness ==
  /\ opencodeRun.phase = "settled"
  /\ ~opencodeRun.signalAborted
  /\ opencodeRun.handled = 3
  /\ opencodeRun.lastEvent.type = "session.idle"
  /\ opencodeRun.lastEvent.sessionID = OwnSession
  /\ opencodeRun.outcome.how = "returned"
  /\ opencodeRun.items = << [type |-> "message", summary |-> "correct response"] >>
  /\ opencodeRun.cost = 0

\* C30 as stated: once the signal is set, a later trigger changes neither
\* the signal nor the flags that record why it was set.
C30_Original ==
  [][aborted => (aborted' /\ didTimeout' = didTimeout /\ didShutdown' = didShutdown)]_vars

\* C30: the signal is set by the first of deadline expiry and interrupt and
\* stays set; the cause the Output reports never changes afterwards. An
\* interrupt after either trigger changes nothing; a deadline that expires
\* after an interrupt still sets didTimeout, which no Output tells apart.
C30_FirstTriggerWins ==
  /\ [](aborted = (didTimeout \/ didShutdown))
  /\ [][/\ aborted => (aborted' /\ abortCause(didShutdown', didTimeout')
                                     = abortCause(didShutdown, didTimeout))
        /\ aborted => didShutdown' = didShutdown
        /\ (aborted /\ didTimeout' # didTimeout) =>
             (didShutdown /\ didShutdown' /\ ~didTimeout)]_vars

\* The deadline expired first and an interrupt followed: the run is still
\* waiting for the adapter and only the deadline is on record.
C30_Witness ==
  /\ pc = "running"
  /\ aborted
  /\ didTimeout
  /\ sigReceived
  /\ ~didShutdown
  /\ ~timeoutId

\* C31: the deadline timer, the heartbeat interval and the interrupt
\* handlers are armed in one synchronous stretch of execute: before it none
\* of them is armed, and whenever a timer callback, an interrupt handler or
\* an adapter step can run, all of them are (the deadline timer pending or
\* already fired).
C31_ArmedTogether ==
  /\ pc = "init" => (listeners = {} /\ ~heartbeat.intervalId /\ ~timeoutId /\ ~aborted)
  /\ (pc \in {"running", "settled"}) =>
       /\ listeners = Signals
       /\ heartbeat.intervalId
       /\ timeoutId \/ didTimeout
  /\ (ENABLED DeadlineFires \/ ENABLED HeartbeatTick
        \/ (\E sig \in Signals : ENABLED shutdownHandler(sig))
        \/ (\E item \in RunItems : ENABLED onItem(item))) =>
       (listeners = Signals /\ heartbeat.intervalId /\ (timeoutId \/ didTimeout))

\* Just armed: nothing has fired or been reported yet.
C31_Witness ==
  /\ pc = "running"
  /\ listeners = Signals
  /\ heartbeat.intervalId
  /\ heartbeat.heartbeatCount = 0
  /\ timeoutId
  /\ ~aborted
  /\ ~sigReceived
  /\ lastUpdate = Absent
  /\ collector = NewActivityCollector

\* C32: from the call of the adapter until cleanup the heartbeat interval
\* stays armed, and while the run waits for the adapter a tick can fire
\* whatever the adapter has or has not reported.
C32_HeartbeatArmedWhileAdapterRuns ==
  /\ (pc \in {"running", "settled"}) => heartbeat.intervalId
  /\ (pc = "running" /\ heartbeat.heartbeatCount < MaxTicks) => ENABLED HeartbeatTick
  /\ (pc = "exited" /\ argsKind = "ok") => ~heartbeat.intervalId

\* The adapter made no callback at all and returned: the Output's activity
\* lists are empty and heartbeat_count holds the two ticks that fired.
C32_Witness ==
  /\ pc = "exited"
  /\ lastUpdate = Absent
  /\ collector = NewActivityCollector
  /\ settlement.how = "returned"
  /\ ~aborted
  /\ stdout[1].success
  /\ stdout[1].activity = getActivity(NewActivityCollector, 2)

\* C33: once the adapter's run has settled, by returning or by throwing,
\* cancelled or not, the run eventually writes one Output and exits; between
\* the settlement and the exit no timer callback and no interrupt handler of
\* the run can come in between.
C33_SettledLeadsToExit ==
  /\ (settlement.how # "pending") ~> (pc = "exited" /\ Len(stdout) = 1 /\ exitCode \in {0, 1})
  /\ []((pc \in {"settled", "rejected"}) =>
          /\ ~ENABLED DeadlineFires
          /\ ~ENABLED HeartbeatTick
          /\ \A sig \in Signals : ~ENABLED shutdownHandler(sig))

\* The adapter threw after the deadline had cancelled it; the run wrote the
\* Output with everything it had armed taken down.
C33_Witness ==
  /\ pc = "exited"
  /\ didTimeout /\ ~didShutdown /\ ~sigReceived
  /\ settlement.how = "threw"
  /\ handledBy = "catch"
  /\ Len(stdout) = 1
  /\ exitCode = 0
  /\ ~timeoutId /\ ~heartbeat.intervalId /\ listeners = {}

\* C34: when the adapter throws after the run was cancelled, the Output is
\* the catch block's placeholder for the trigger that came first: the
\* shutdown text if an interrupt came first, the timed-out text if the
\* deadline did, whichever triggers followed.
C34_PlaceholderNamesFirstTrigger ==
  (pc = "exited" /\ settlement.how = "threw" /\ firstTrigger # "none") =>
    /\ handledBy = "catch"
    /\ stdout[1].success
    /\ stdout[1].response = (IF firstTrigger = "interrupt" THEN SHUTDOWN_PLACEHOLDER
                                                          ELSE TIMEOUT_PLACEHOLDER)

\* An interrupt came first, the deadline expired afterwards, and then the
\* adapter threw.
C34_Witness ==
  /\ pc = "exited"
  /\ firstTrigger = "interrupt"
  /\ didShutdown /\ didTimeout
  /\ settlement.how = "threw"
  /\ stdout[1].response = SHUTDOWN_PLACEHOLDER

\* C35: while the Claude adapter runs, the forwarding listener is in place
\* at every moment at which the run's cancellation signal can still be set,
\* and once the signal is set the controller handed to the SDK is aborted.
C35_AbortForwardedToClaude ==
  /\ (claudeRun.phase # "idle" /\ ~claudeRun.signalAborted) => claudeRun.forwarding
  /\ ENABLED parentAborts => claudeRun.forwarding
  /\ (claudeRun.phase # "idle") => (claudeRun.sdkAborted = claudeRun.signalAborted)

\* The signal was set after the adapter had handled a message, and the
\* query ended with the SDK's abort error.
C35_Witness ==
  /\ claudeRun.phase = "settled"
  /\ claudeRun.handled = 1
  /\ claudeRun.signalAborted
  /\ claudeRun.sdkAborted
  /\ claudeRun.outcome.err = "AbortError"

\* C36: once the signal is set, an event the stream yields is not handled
\* (no status text, no item, no text, no figures; the loop is left), no
\* prompt is sent that was not sent before, and the run eventually settles.
C36_StopsOnceCancelled ==
  /\ [][(opencodeRun.signalAborted /\ opencodeRun'.handled = opencodeRun.handled + 1) =>
          /\ opencodeRun'.lastActivity = opencodeRun.lastActivity
          /\ opencodeRun'.reported = opencodeRun.reported
          /\ opencodeRun'.items = opencodeRun.items
          /\ opencodeRun'.textParts = opencodeRun.textParts
          /\ opencodeRun'.cost = opencodeRun.cost
          /\ opencodeRun'.tokens = opencodeRun.tokens
          /\ opencodeRun'.phase # "events"]_vars
  /\ [][(opencodeRun.signalAborted /\ opencodeRun.phase \notin {"prompting", "syncPrompt"}) =>
          opencodeRun'.phase \notin {"prompting", "syncPrompt"}]_vars
  /\ opencodeRun.signalAborted ~> (opencodeRun.phase = "settled")

\* C37: whenever an Output has been written, or the outcome has been
\* classified and handed on to run()'s .catch, the deadline timer is
\* cleared, the heartbeat interval stopped and shutdownHandler removed from
\* both signals, so that neither the deadline callback nor the handler can
\* run any more.
C37_DisarmedBeforeOutput ==
  (Len(stdout) > 0 \/ pc \in {"rejected", "exited"}) =>
    /\ ~timeoutId
    /\ ~heartbeat.intervalId
    /\ listeners = {}
    /\ ~ENABLED DeadlineFires
    /\ \A sig \in Signals : ~ENABLED shutdownHandler(sig)

\* The run had been cancelled by an interrupt with the deadline still
\* pending, the adapter returned, and the Output was written by the try
\* block with the pending deadline timer cleared.
C37_Witness ==
  /\ pc = "exited"
  /\ handledBy = "try"
  /\ didShutdown /\ ~didTimeout
  /\ ~timeoutId
  /\ ~heartbeat.intervalId
  /\ listeners = {}
  /\ Len(stdout) = 1

\* C38: in every state of a run the signal is aborted exactly when
\* didTimeout or didShutdown is set, and a flag that is set stays set.
C38_SignalIffFlag ==
  /\ [](aborted <=> (didTimeout \/ didShutdown))
  /\ [][(didTimeout => didTimeout') /\ (didShutdown => didShutdown')]_vars

\* Both flags are set, the adapter has just thrown, and execute has not
\* resumed yet.
C38_Witness ==
  /\ pc = "settled"
  /\ settlement.how = "threw"
  /\ aborted
  /\ didTimeout /\ didShutdown

\* C39 as stated: whenever the signal has been set and the session exists,
\* exactly one session.abort request has been sent, also when the signal
\* was set while session creation was in flight.
C39_Original ==
  (opencodeRun.signalAborted /\ opencodeRun.sessionId # Absent) =>
    opencodeRun.sessionAborts = 1

\* C39: exactly one session.abort request is sent when the signal is set
\* after registerAbortHandler has run and before the run settles, in the
\* step that sets the signal; when the signal is set earlier, while the
\* server starts or session creation is in flight, none is ever sent and the
\* run throws "Aborted" without sending a prompt.
C39_OneSessionAbortOnceRegistered ==
  /\ [](opencodeRun.sessionAborts =
          (IF opencodeRun.signalAborted /\ opencodeRun.abortedAt \notin {"starting", "creating"}
           THEN 1 ELSE 0))
  /\ []((opencodeRun.signalAborted /\ opencodeRun.abortedAt \in {"starting", "creating"}
           /\ opencodeRun.phase = "settled") =>
          (opencodeRun.outcome.how = "threw" /\ opencodeRun.lastActivity # "sending prompt"))
  /\ [][opencodeRun'.sessionAborts # opencodeRun.sessionAborts =>
          (~opencodeRun.signalAborted /\ opencodeRun'.signalAborted
             /\ opencodeRun.sessionId # Absent)]_vars

\* The signal was set while session creation was in flight: the session
\* exists, the run threw "Aborted", and no abort request was sent.
C39_Witness ==
  /\ opencodeRun.phase = "settled"
  /\ opencodeRun.abortedAt = "creating"
  /\ opencodeRun.sessionId = OwnSession
  /\ opencodeRun.sessionAborts = 0
  /\ opencodeRun.outcome.err = "Aborted"

=============================================================================
